---- MODULE Spec2Model ----
(***************************************************************************)
(* Session lifecycle and reconnection manager of steam-hour-boost          *)
(* (src/src/steamFunctions.ts): the registry of live clients, the          *)
(* reconnect scheduler and the login flow with its event handlers.         *)
(*                                                                         *)
(* Every handler of the source is one action.  The body of a handler is a  *)
(* composition of operators on a record M that holds the module's mutable  *)
(* state; M.fx is the sequence of calls the handler made, in order.        *)
(***************************************************************************)
EXTENDS Integers, Sequences, FiniteSets, TLC

VARIABLES
    activeClients,        \* username -> client id, 0 when the map has no entry
    accountsToReconnect,  \* username -> Account snapshot, NoAccount when absent
    reconnectTimers,      \* username -> timer handle, 0 when the map has no entry
    timers,               \* username -> set of armed (set, not fired, not cleared) reconnect timers
    tokenFiles,           \* username -> content of data/tokens/<username>.token
    clients,              \* client id -> SteamUser instance and the closure of its login call
    encryptionKey,        \* process-wide passphrase, "" until set
    accounts,             \* username -> Account record kept by the storage
    pendingGuardCodes,    \* bot: username -> client whose verification request is registered, 0 when none
    guardRequests,        \* bot: client id -> state of the guardCallback call made for it
    staleGuardTimers,     \* bot: username -> armed 2-minute timers of requests already answered
    resuming,             \* client id -> playGames calls of the playingState handler still running
    games,                \* account.games of the Account object the session was started with
    tokensDir,            \* file name -> the file of TOKENS_DIR with its bytes and its age
    savedTokens,          \* history: identifier -> tokens saved since the last delete, in order
    dataFile,             \* the file data/accounts.enc of the storage, NoEntry when absent
    stopped,              \* history: the accounts logout was called for, no login call since
    last                  \* what the last handler was, what it saw and the calls it made

vars == <<activeClients, accountsToReconnect, reconnectTimers, timers,
          tokenFiles, clients, encryptionKey, accounts,
          pendingGuardCodes, guardRequests, staleGuardTimers, resuming, games,
          tokensDir, savedTokens, dataFile, stopped, last>>

----------------------------------------------------------------------------
(* Bounds *)

MaxClients == 2
MaxPlaying == 1

----------------------------------------------------------------------------
(* Data *)

Accounts == {"alice", "bob"}
Stored == {"alice"}
ClientIds == 1..MaxClients
Tokens == {"T1"}
NoFile == ""
Corrupt == "corrupt"
GuardCodes == {"", "123456"}
ErrorMessages ==
    {"LoggedInElsewhere", "LogonSessionReplaced", "RateLimitExceeded",
     "InvalidPassword", "AccessDenied", "Expired", "ServiceUnavailable"}
LoginTimeoutError == "Login timeout (30s)"
GuardNotProvided == "Steam Guard code not provided"
GuardNoCallback == "Steam Guard required but no callback"

NoAccount == [username |-> "", password |-> "", sharedSecret |-> FALSE, guardType |-> "", ownerId |-> 0]

AccountConfigs ==
    { [sharedSecret |-> FALSE, guardType |-> "none"],
      [sharedSecret |-> TRUE,  guardType |-> "secret"],
      [sharedSecret |-> FALSE, guardType |-> "mobile"],
      [sharedSecret |-> FALSE, guardType |-> "unset"] }

Account(u, cfg) ==
    [username |-> u, password |-> "pw", sharedSecret |-> cfg.sharedSecret,
     guardType |-> cfg.guardType, ownerId |-> 1]

NoClient ==
    [state |-> "none", account |-> NoAccount, listeners |-> FALSE, timeout |-> FALSE,
     guardCallback |-> FALSE, unattended |-> FALSE, result |-> "none",
     guardWait |-> FALSE, playing |-> 0]

\* TOKENS_DIR: a file name is the sequence of its parts, <username>.token for
\* a record of the vault
VaultIds == {"alice", "sentry"}
TokenFile(username) == <<username, ".token">>
CacheFiles == {<<"sentry", "_alice">>, <<"notes", ".txt">>}
FileNames == {TokenFile(id) : id \in VaultIds} \cup CacheFiles
NoEntry == [kind |-> "none"]
EmptyDir == [name \in FileNames |-> NoEntry]

----------------------------------------------------------------------------
(* The module state a handler works on, and the log of the calls it makes *)

Cur ==
    [activeClients |-> activeClients, accountsToReconnect |-> accountsToReconnect,
     reconnectTimers |-> reconnectTimers, timers |-> timers,
     tokenFiles |-> tokenFiles, clients |-> clients, fx |-> <<>>, sent |-> <<>>,
     pendingGuardCodes |-> pendingGuardCodes, guardRequests |-> guardRequests,
     staleGuardTimers |-> staleGuardTimers, resuming |-> resuming]

Fx(M, call) == [M EXCEPT !.fx = Append(@, call)]

\* steamUser.logOn(logOnOptions): the options are kept in M.sent
logOn(M, options) ==
    Fx([M EXCEPT !.sent = Append(@, options)],
       IF options.refreshToken # "" THEN "logOn:token" ELSE "logOn:password")

\* String.prototype.includes on an error message: the messages of the model
\* are the bare result names, none of which contains another.
Includes(message, name) == message = name

----------------------------------------------------------------------------
(* Token vault *)

saveToken(M, username, token) ==
    IF encryptionKey = "" THEN M
    ELSE Fx([M EXCEPT !.tokenFiles[username] = token], "saveToken")

\* value returned by loadToken; "" stands for null
loadToken(M, username) ==
    IF encryptionKey = "" THEN ""
    ELSE IF M.tokenFiles[username] = NoFile THEN ""
    ELSE IF M.tokenFiles[username] = Corrupt THEN ""
    ELSE M.tokenFiles[username]

\* state left by loadToken: a record that fails to decrypt or parse is unlinked
loadTokenUnlink(M, username) ==
    IF encryptionKey # "" /\ M.tokenFiles[username] = Corrupt
    THEN [M EXCEPT !.tokenFiles[username] = NoFile]
    ELSE M

deleteToken(M, username) ==
    Fx([M EXCEPT !.tokenFiles[username] = NoFile], "deleteToken")

hasToken(M, username) == loadToken(M, username) # ""

----------------------------------------------------------------------------
(* Notification bridge *)

notifyCallbackSet == TRUE

notify(M, account, message) ==
    IF notifyCallbackSet /\ account.ownerId # 0 THEN Fx(M, message) ELSE M

----------------------------------------------------------------------------
(* Session registry and client calls *)

isOnline(M, username) == M.activeClients[username] # 0

removeAllListeners(M, c) ==
    Fx([M EXCEPT !.clients[c].listeners = FALSE], "removeAllListeners")

logOff(M, c) ==
    Fx([M EXCEPT !.clients[c].state = "off"], "logOff")

clearLoginTimeout(M, c) ==
    Fx([M EXCEPT !.clients[c].timeout = FALSE], "clearTimeout")

----------------------------------------------------------------------------
(* Reconnect scheduler *)

NewTimer(M, username) ==
    CHOOSE t \in 1..(Cardinality(M.timers[username]) + 1) :
        /\ t \notin M.timers[username]
        /\ \A s \in 1..(t - 1) : s \in M.timers[username]

\* variants with a slip, used to test that the properties below depend on the code
canAutoReconnectUnset(M, account) ==
    \/ hasToken(M, account.username)
    \/ account.sharedSecret
    \/ account.guardType \in {"none", "unset"}

canAutoReconnectTokenOnly(M, account) ==
    hasToken(M, account.username)

canAutoReconnect(M, account) ==
    \/ hasToken(M, account.username)
    \/ account.sharedSecret
    \/ account.guardType = "none"

\* slip: no check for an existing timer
scheduleReconnectNoDedup(M, account) ==
    LET u == account.username
        M1 == loadTokenUnlink(M, u)
    IN IF ~canAutoReconnect(M1, account) THEN Fx(M1, "schedule:ineligible")
       ELSE LET t == NewTimer(M1, u) IN
            Fx([M1 EXCEPT !.accountsToReconnect[u] = account,
                          !.timers[u] = @ \cup {t},
                          !.reconnectTimers[u] = t], "schedule:armed")

\* slip: the timer is armed but not entered in reconnectTimers
scheduleReconnectNoTimerEntry(M, account) ==
    LET u == account.username IN
    IF M.reconnectTimers[u] # 0 THEN Fx(M, "schedule:already")
    ELSE LET M1 == loadTokenUnlink(M, u) IN
         IF ~canAutoReconnect(M1, account) THEN Fx(M1, "schedule:ineligible")
         ELSE LET t == NewTimer(M1, u) IN
              Fx([M1 EXCEPT !.accountsToReconnect[u] = account,
                            !.timers[u] = @ \cup {t}], "schedule:armed")

scheduleReconnect(M, account) ==
    LET u == account.username IN
    IF M.reconnectTimers[u] # 0 THEN Fx(M, "schedule:already")
    ELSE LET M1 == loadTokenUnlink(M, u) IN
         IF ~canAutoReconnect(M1, account) THEN Fx(M1, "schedule:ineligible")
         ELSE LET t == NewTimer(M1, u) IN
              Fx([M1 EXCEPT !.accountsToReconnect[u] = account,
                            !.timers[u] = @ \cup {t},
                            !.reconnectTimers[u] = t], "schedule:armed")

\* slip: every pending reconnect is cancelled, not the one of username
cancelReconnectAll(M, username) ==
    Fx([M EXCEPT !.timers = [u \in Accounts |-> {}],
                 !.reconnectTimers = [u \in Accounts |-> 0],
                 !.accountsToReconnect = [u \in Accounts |-> NoAccount]],
       "accountsToReconnect.delete")

cancelReconnect(M, username) ==
    LET timer == M.reconnectTimers[username]
        M1 == IF timer # 0
              THEN Fx([M EXCEPT !.timers[username] = @ \ {timer},
                                !.reconnectTimers[username] = 0], "clearTimeout:reconnect")
              ELSE M
    IN Fx([M1 EXCEPT !.accountsToReconnect[username] = NoAccount], "accountsToReconnect.delete")

\* the part of the timer callback that runs once the awaited login has resolved
reconnectResult(M, acc, result) ==
    IF result = "success" THEN notify(M, acc, "notify:reconnected")
    ELSE IF Includes(result, "LoggedInElsewhere") THEN scheduleReconnect(M, acc)
    ELSE M

\* resolve of the login promise: the first call settles it with its value
\* ("success" or the error) and resumes the caller that awaits it, later calls
\* do nothing
resolve(M, c, result) ==
    IF M.clients[c].result # "pending" THEN M
    ELSE LET M1 == Fx([M EXCEPT !.clients[c].result = result],
                      IF result = "success" THEN "resolve:success" ELSE "resolve:failure")
         IN IF M.clients[c].unattended
            THEN reconnectResult(M1, M.clients[c].account, result)
            ELSE M1

----------------------------------------------------------------------------
(* login: the synchronous part, up to the registration of the handlers *)

FreeClients(M) == {c \in ClientIds : M.clients[c].state = "none"}

NewClient(M) == CHOOSE c \in FreeClients(M) : \A d \in FreeClients(M) : c <= d

\* slip: the account name and the password are set next to the token
logOnOptionsTokenAndPassword(M, account) ==
    LET savedToken == loadToken(M, account.username) IN
    [refreshToken |-> savedToken, accountName |-> account.username,
     password |-> account.password,
     twoFactorCode |-> savedToken = "" /\ account.sharedSecret]

\* twoFactorCode: a code generated from the shared secret is attached
logOnOptions(M, account) ==
    LET savedToken == loadToken(M, account.username) IN
    IF savedToken # ""
    THEN [refreshToken |-> savedToken, accountName |-> "", password |-> "",
          twoFactorCode |-> FALSE]
    ELSE [refreshToken |-> "", accountName |-> account.username,
          password |-> account.password, twoFactorCode |-> account.sharedSecret]

\* slip: logOn is issued before the pending reconnect is cancelled and the
\* registered handle torn down
loginLogOnFirst(M, account, guardCallback, unattended, c) ==
    LET u == account.username
        M0 == loadTokenUnlink(M, u)
        steamUser == [state |-> "connecting", account |-> account, listeners |-> TRUE,
                      timeout |-> TRUE, guardCallback |-> guardCallback,
                      unattended |-> unattended, result |-> "pending",
                      guardWait |-> FALSE, playing |-> 0]
        M1 == logOn([M0 EXCEPT !.clients[c] = steamUser], logOnOptions(M, account))
        M2 == cancelReconnect(M1, u)
        existing == M2.activeClients[u]
    IN IF existing # 0
       THEN Fx([logOff(removeAllListeners(M2, existing), existing)
                   EXCEPT !.activeClients[u] = 0], "activeClients.delete")
       ELSE M2

\* c is the SteamUser instance the call constructs
login(M, account, guardCallback, unattended, c) ==
    LET u == account.username
        M1 == cancelReconnect(M, u)
        existing == M1.activeClients[u]
        M2 == IF existing # 0
              THEN Fx([logOff(removeAllListeners(M1, existing), existing)
                          EXCEPT !.activeClients[u] = 0], "activeClients.delete")
              ELSE M1
        M3 == loadTokenUnlink(M2, u)
        steamUser == [state |-> "connecting", account |-> account, listeners |-> TRUE,
                      timeout |-> TRUE, guardCallback |-> guardCallback,
                      unattended |-> unattended, result |-> "pending",
                      guardWait |-> FALSE, playing |-> 0]
    IN logOn([M3 EXCEPT !.clients[c] = steamUser], logOnOptions(M2, account))

\* slip: the pending reconnect is not cancelled
logoutKeepReconnect(M, username) ==
    LET client == M.activeClients[username]
    IN IF client # 0
       THEN Fx(Fx([logOff(removeAllListeners(M, client), client)
                      EXCEPT !.activeClients[username] = 0], "activeClients.delete"),
               "return:true")
       ELSE Fx(M, "return:false")

logout(M, username) ==
    LET M1 == cancelReconnect(M, username)
        client == M1.activeClients[username]
    IN IF client # 0
       THEN Fx(Fx([logOff(removeAllListeners(M1, client), client)
                      EXCEPT !.activeClients[username] = 0], "activeClients.delete"),
               "return:true")
       ELSE Fx(M1, "return:false")

\* slip: no check whether the account is online already
reconnectTimerCallbackNoSkip(M, username, t, c) ==
    LET acc == M.accountsToReconnect[username]
        M1 == Fx([M EXCEPT !.timers[username] = @ \ {t},
                           !.reconnectTimers[username] = 0,
                           !.accountsToReconnect[username] = NoAccount], "timer:fired")
    IN IF acc = NoAccount THEN M1
       ELSE login(Fx(M1, "login:unattended"), acc, FALSE, TRUE, c)

\* slip: the record is deleted before it is read
reconnectTimerCallbackDeleteFirst(M, username, t, c) ==
    Fx([M EXCEPT !.timers[username] = @ \ {t},
                 !.reconnectTimers[username] = 0,
                 !.accountsToReconnect[username] = NoAccount], "timer:fired")

\* body of the callback armed by scheduleReconnect, up to its await
reconnectTimerCallback(M, username, t, c) ==
    LET acc == M.accountsToReconnect[username]
        M1 == Fx([M EXCEPT !.timers[username] = @ \ {t},
                           !.reconnectTimers[username] = 0,
                           !.accountsToReconnect[username] = NoAccount], "timer:fired")
    IN IF acc = NoAccount THEN M1
       ELSE IF isOnline(M1, acc.username) THEN Fx(M1, "skip:online")
       ELSE login(Fx(M1, "login:unattended"), acc, FALSE, TRUE, c)

----------------------------------------------------------------------------
(* Handlers registered by login on its client c *)

\* slip: the observers stay attached
loginTimeoutKeepListeners(M, c) ==
    resolve([M EXCEPT !.clients[c].timeout = FALSE], c, LoginTimeoutError)

loginTimeout(M, c) ==
    resolve(removeAllListeners([M EXCEPT !.clients[c].timeout = FALSE], c),
            c, LoginTimeoutError)

isCredentialError(message) ==
    \/ Includes(message, "InvalidPassword")
    \/ Includes(message, "AccessDenied")
    \/ Includes(message, "Expired")

isTransientError(message) ==
    \/ Includes(message, "LoggedInElsewhere")
    \/ Includes(message, "LogonSessionReplaced")
    \/ Includes(message, "RateLimitExceeded")

\* slip: no reconnect is scheduled after a transient error
onErrorNoSchedule(M, c, message) ==
    LET account == M.clients[c].account
        M1 == clearLoginTimeout(M, c)
        M2 == Fx([M1 EXCEPT !.activeClients[account.username] = 0], "activeClients.delete")
        M3 == IF isCredentialError(message) THEN deleteToken(M2, account.username) ELSE M2
        M4 == removeAllListeners(M3, c)
    IN resolve(M4, c, message)

\* slip: the token is kept after a credential error
onErrorKeepToken(M, c, message) ==
    LET account == M.clients[c].account
        M1 == clearLoginTimeout(M, c)
        M2 == Fx([M1 EXCEPT !.activeClients[account.username] = 0], "activeClients.delete")
        M4 == removeAllListeners(M2, c)
        M5 == IF isTransientError(message) THEN scheduleReconnect(M4, account) ELSE M4
    IN resolve(M5, c, message)

onError(M, c, message) ==
    LET account == M.clients[c].account
        M1 == clearLoginTimeout(M, c)
        M2 == Fx([M1 EXCEPT !.activeClients[account.username] = 0], "activeClients.delete")
        M3 == IF isCredentialError(message) THEN deleteToken(M2, account.username) ELSE M2
        M4 == removeAllListeners(M3, c)
        M5 == IF isTransientError(message) THEN scheduleReconnect(M4, account) ELSE M4
    IN resolve(M5, c, message)

onRefreshToken(M, c, token) ==
    saveToken(M, M.clients[c].account.username, token)

\* up to the await of guardCallback when there is one
onSteamGuard(M, c) ==
    IF M.clients[c].guardCallback
    THEN Fx([M EXCEPT !.clients[c].guardWait = TRUE], "guardCallback")
    ELSE resolve(removeAllListeners(clearLoginTimeout(M, c), c), c, GuardNoCallback)

\* callback(code) of the steamGuard event: the client sends the code when it
\* is still waiting for one
submitCode(M, c, code) ==
    Fx(IF M.clients[c].state = "guard"
       THEN [M EXCEPT !.clients[c].state = "connecting", !.sent = Append(@, [code |-> code])]
       ELSE [M EXCEPT !.sent = Append(@, [code |-> code])], "submitCode")

\* the steamGuard handler after its await
onGuardCode(M, c, code) ==
    LET M1 == [M EXCEPT !.clients[c].guardWait = FALSE] IN
    IF code # "" THEN submitCode(M1, c, code)
    ELSE resolve(removeAllListeners(clearLoginTimeout(M1, c), c), c, GuardNotProvided)

\* up to the await of playGames
onLoggedOn(M, c) ==
    LET account == M.clients[c].account
        M1 == clearLoginTimeout(M, c)
        M2 == Fx([M1 EXCEPT !.activeClients[account.username] = c], "activeClients.set")
    IN Fx([M2 EXCEPT !.clients[c].playing = @ + 1], "setPersona")

\* playGames has returned: gamesPlayed was called and the handler resolves
onGamesPlayed(M, c) ==
    resolve(Fx([M EXCEPT !.clients[c].playing = @ - 1], "gamesPlayed"), c, "success")

\* slip: the handler does not schedule a reconnect
onDisconnectedNoSchedule(M, c) ==
    LET account == M.clients[c].account
        M1 == Fx([M EXCEPT !.activeClients[account.username] = 0], "activeClients.delete")
    IN notify(M1, account, "notify:disconnected")

onDisconnected(M, c) ==
    LET account == M.clients[c].account
        M1 == Fx([M EXCEPT !.activeClients[account.username] = 0], "activeClients.delete")
        M2 == notify(M1, account, "notify:disconnected")
    IN scheduleReconnect(M2, account)

----------------------------------------------------------------------------
(* State machine *)

\* A SteamUser instance that nothing refers to any more and that can emit no
\* further event is dropped, and its identifier is free again.
Collectable(cl) ==
    /\ cl.state = "off" \/ (cl.state = "guard" /\ ~cl.listeners)
    /\ ~cl.timeout
    /\ ~cl.guardWait
    /\ cl.playing = 0
    /\ cl.result # "pending"

\* Once the promise is settled nothing reads unattended again, and guardCallback
\* is read by the steamGuard handler only, which runs while listeners are attached.
Forget(cl) ==
    [cl EXCEPT !.unattended = IF cl.result = "pending" THEN @ ELSE FALSE,
               !.guardCallback = IF cl.listeners THEN @ ELSE FALSE]

Collect(cls) ==
    [c \in ClientIds |-> IF Collectable(cls[c]) THEN NoClient ELSE Forget(cls[c])]

\* an event of client c, or the settling of a promise one of its handlers awaits;
\* wasPending: the login promise of c has not been settled yet;
\* awaited: the reconnect timer callback is awaiting the login call of c;
\* result: the state of c's login promise once the handler has run
Seen(op, u, c, arg) ==
    [op |-> op, acct |-> u, client |-> c, arg |-> arg,
     handled |-> clients[c].listeners,
     wasPending |-> clients[c].result = "pending",
     wasOnline |-> activeClients[u] # 0,
     wasRegistered |-> activeClients[u] = c,
     awaited |-> clients[c].unattended /\ clients[c].result = "pending",
     result |-> "none",
     fx |-> <<>>, sent |-> <<>>]

\* a call or a timer callback; c is the client it constructs, 0 when it constructs none
Called(op, u, c, arg) ==
    [op |-> op, acct |-> u, client |-> c, arg |-> arg,
     handled |-> TRUE,
     wasPending |-> FALSE,
     wasOnline |-> activeClients[u] # 0,
     wasRegistered |-> FALSE,
     awaited |-> FALSE,
     result |-> "none",
     fx |-> <<>>, sent |-> <<>>]

\* Client identifiers only name SteamUser instances.  After every handler the
\* instances are renamed into a fixed order (by Rank, free identifiers last);
\* the registry and last are renamed with them.
Bit(b) == IF b THEN 1 ELSE 0

StateNo(state) ==
    CASE state = "none" -> 0
      [] state = "off" -> 1
      [] state = "guard" -> 2
      [] state = "disc" -> 3
      [] state = "connecting" -> 4
      [] state = "on" -> 5

Rank(M, c, lastClient) ==
    LET cl == M.clients[c]
        u == cl.account.username
    IN IF cl.state = "none" THEN 0
       ELSE 1 + Bit(cl.listeners) + 2 * Bit(cl.timeout) + 4 * Bit(cl.guardCallback)
              + 8 * Bit(cl.unattended) + 16 * Bit(cl.result = "pending")
              + 32 * Bit(cl.guardWait) + 64 * cl.playing
              + 64 * (MaxPlaying + 1) * (Bit(M.activeClients[u] = c) + 2 * Bit(c = lastClient)
                  + 4 * Bit(u = "alice") + 8 * StateNo(cl.state))

\* rank is the function c |-> Rank(M, c, lastClient)
Position(rank, c) ==
    1 + Cardinality({d \in ClientIds :
            \/ rank[d] > rank[c]
            \/ rank[d] = rank[c] /\ d < c})

CommitState(M, seen) ==
    \E N \in {[M EXCEPT !.clients = Collect(M.clients)]} :
    \E rank \in {[c \in ClientIds |-> Rank(N, c, seen.client)]} :
    \E pos \in {[c \in ClientIds \cup {0} |-> IF c = 0 THEN 0 ELSE Position(rank, c)]} :
       /\ activeClients' = [u \in Accounts |-> pos[N.activeClients[u]]]
       /\ accountsToReconnect' = N.accountsToReconnect
       /\ reconnectTimers' = N.reconnectTimers
       /\ timers' = N.timers
       /\ tokenFiles' = N.tokenFiles
       /\ clients' = [p \in ClientIds |-> N.clients[CHOOSE c \in ClientIds : pos[c] = p]]
       /\ pendingGuardCodes' = [u \in Accounts |-> pos[N.pendingGuardCodes[u]]]
       /\ guardRequests' = [p \in ClientIds |-> N.guardRequests[CHOOSE c \in ClientIds : pos[c] = p]]
       /\ staleGuardTimers' = N.staleGuardTimers
       /\ resuming' = [p \in ClientIds |->
                LET c == CHOOSE d \in ClientIds : pos[d] = p
                IN IF N.clients[c].state = "none" THEN 0 ELSE N.resuming[c]]
       /\ last' = [seen EXCEPT !.fx = N.fx, !.sent = N.sent, !.client = pos[seen.client],
                               !.result = IF seen.client = 0 THEN "none"
                                          ELSE M.clients[seen.client].result]

\* The history of the explicit stops is kept by the specification that starts
\* with it (SpecStop).
NotTracked == [tracking |-> FALSE, accounts |-> {}]

Track(history, seen) ==
    IF ~history.tracking THEN history
    ELSE IF seen.op = "logout" THEN [history EXCEPT !.accounts = @ \cup {seen.acct}]
    ELSE IF seen.op = "login" THEN [history EXCEPT !.accounts = @ \ {seen.acct}]
    ELSE history

\* the handlers of steamFunctions.ts change neither the key nor the storage
Commit(M, seen) ==
    /\ CommitState(M, seen)
    /\ stopped' = Track(stopped, seen)
    /\ UNCHANGED <<encryptionKey, accounts, games, tokensDir, savedTokens, dataFile>>

\* the client library changes the connection state of c and then emits the event
Emit(c, state) == [Cur EXCEPT !.clients[c].state = state]

InitState ==
    /\ activeClients = [u \in Accounts |-> 0]
    /\ accountsToReconnect = [u \in Accounts |-> NoAccount]
    /\ reconnectTimers = [u \in Accounts |-> 0]
    /\ timers = [u \in Accounts |-> {}]
    /\ \E file \in {NoFile, Corrupt} :
          tokenFiles = [u \in Accounts |-> IF u \in Stored THEN file ELSE NoFile]
    /\ clients = [c \in ClientIds |-> NoClient]
    /\ encryptionKey = "key-of-16-chars+"
    /\ \E cfg \in AccountConfigs :
          accounts = [u \in Accounts |-> IF u \in Stored THEN Account(u, cfg) ELSE NoAccount]
    /\ pendingGuardCodes = [u \in Accounts |-> 0]
    /\ guardRequests = [c \in ClientIds |-> "none"]
    /\ staleGuardTimers = [u \in Accounts |-> 0]
    /\ resuming = [c \in ClientIds |-> 0]
    /\ tokensDir = EmptyDir
    /\ savedTokens = [id \in VaultIds |-> <<>>]
    /\ dataFile = NoEntry
    /\ games = <<>>
    /\ last = [op |-> "init", acct |-> "", client |-> 0, arg |-> "", handled |-> FALSE,
               wasPending |-> FALSE,
               wasOnline |-> FALSE, wasRegistered |-> FALSE, awaited |-> FALSE,
               result |-> "none", fx |-> <<>>, sent |-> <<>>]

Init == InitState /\ stopped = NotTracked

\* login(account, guardCallback) called by the bot: startBoost passes a
\* guardCallback; handleStartAll and startAutoBoost pass none and start only
\* accounts with a shared secret or without guard
Login(u, guardCallback) ==
    /\ accounts[u] # NoAccount
    /\ guardCallback \/ accounts[u].sharedSecret \/ accounts[u].guardType = "none"
    /\ FreeClients(Cur) # {}
    /\ LET c == NewClient(Cur) IN
       Commit(login(Cur, accounts[u], guardCallback, FALSE, c),
              Called("login", u, c, IF guardCallback THEN "guardCallback" ELSE ""))

Logout(u) ==
    /\ accounts[u] # NoAccount
    /\ Commit(logout(Cur, u), Called("logout", u, 0, ""))

\* an armed reconnect timer of username fires
ReconnectTimerFires(u, t) ==
    /\ t \in timers[u]
    /\ (accountsToReconnect[u] # NoAccount /\ ~isOnline(Cur, u)) => FreeClients(Cur) # {}
    /\ LET c == IF FreeClients(Cur) # {} THEN NewClient(Cur) ELSE 0
           M == reconnectTimerCallback(Cur, u, t, c)
           constructed == IF c # 0 /\ M.clients[c].state # "none" THEN c ELSE 0
       IN Commit(M, Called("reconnectTimer", u, constructed, ""))

LoginTimeoutFires(c) ==
    /\ clients[c].timeout
    /\ Commit(loginTimeout(Cur, c), Seen("loginTimeout", clients[c].account.username, c, ""))

ErrorEvent(c, message) ==
    /\ clients[c].state \in {"connecting", "on", "disc"}
    /\ Commit(IF clients[c].listeners THEN onError(Emit(c, "off"), c, message) ELSE Emit(c, "off"),
              Seen("error", clients[c].account.username, c, message))

RefreshTokenEvent(c, token) ==
    /\ clients[c].state = "connecting"
    /\ Commit(IF clients[c].listeners THEN onRefreshToken(Cur, c, token) ELSE Cur,
              Seen("refreshToken", clients[c].account.username, c, token))

SteamGuardEvent(c) ==
    /\ clients[c].state = "connecting"
    /\ Commit(IF clients[c].listeners THEN onSteamGuard(Emit(c, "guard"), c) ELSE Emit(c, "guard"),
              Seen("steamGuard", clients[c].account.username, c, ""))

\* the promise returned by guardCallback settles
GuardCallbackReturns(c, code) ==
    /\ clients[c].guardWait
    /\ Commit(onGuardCode(Cur, c, code), Seen("guardCode", clients[c].account.username, c, code))

\* first log-on, or the automatic log-on of a disconnected client (autoRelogin)
LoggedOnEvent(c) ==
    /\ clients[c].state \in {"connecting", "disc"}
    /\ clients[c].listeners => clients[c].playing < MaxPlaying
    /\ Commit(IF clients[c].listeners THEN onLoggedOn(Emit(c, "on"), c) ELSE Emit(c, "on"),
              Seen("loggedOn", clients[c].account.username, c, ""))

PlayGamesReturns(c) ==
    /\ clients[c].playing > 0
    /\ Commit(onGamesPlayed(Cur, c), Seen("gamesPlayed", clients[c].account.username, c, ""))

DisconnectedEvent(c) ==
    /\ clients[c].state = "on"
    /\ Commit(IF clients[c].listeners THEN onDisconnected(Emit(c, "disc"), c) ELSE Emit(c, "disc"),
              Seen("disconnected", clients[c].account.username, c, ""))

Next ==
    \/ \E u \in Accounts, guardCallback \in BOOLEAN : Login(u, guardCallback)
    \/ \E u \in Accounts : Logout(u)
    \/ \E u \in Accounts : \E t \in timers[u] : ReconnectTimerFires(u, t)
    \/ \E c \in ClientIds : LoginTimeoutFires(c)
    \/ \E c \in ClientIds, message \in ErrorMessages : ErrorEvent(c, message)
    \/ \E c \in ClientIds, token \in Tokens : RefreshTokenEvent(c, token)
    \/ \E c \in ClientIds : SteamGuardEvent(c)
    \/ \E c \in ClientIds, code \in GuardCodes : GuardCallbackReturns(c, code)
    \/ \E c \in ClientIds : LoggedOnEvent(c)
    \/ \E c \in ClientIds : PlayGamesReturns(c)
    \/ \E c \in ClientIds : DisconnectedEvent(c)

Spec == Init /\ [][Next]_vars

\* an account with mobile guard and no shared secret, no token on file yet
InitTimers ==
    /\ Init
    /\ accounts["alice"].guardType = "mobile"
    /\ tokenFiles["alice"] = NoFile

\* setTimeout: an armed reconnect timer that is not cleared fires
SpecTimers ==
    /\ InitTimers
    /\ [][Next]_vars
    /\ WF_vars(\E u \in Accounts : \E t \in timers[u] : ReconnectTimerFires(u, t))

----------------------------------------------------------------------------
(* The bot's removal of an account, and the specification that includes it *)

Users == {1, 2}

\* SecureStorage.getAccount: NoAccount stands for undefined
getAccount(accts, username) == accts[username]

\* SecureStorage.removeAccount
removeAccount(accts, username) == [accts EXCEPT ![username] = NoAccount]

\* slip: the session is not stopped before the record is removed
deleteAccountNoLogout(M, username) == Fx(M, "removeAccount")

\* deleteAccount past its ownership check, on the state of steamFunctions.ts
deleteAccount(M, username) == Fx(logout(M, username), "removeAccount")

\* confirm_delete_<username> pressed by userId
DeleteAccount(u, userId) ==
    LET account == getAccount(accounts, u) IN
    IF account = NoAccount \/ account.ownerId # userId
    THEN /\ last' = Called("deleteAccount", u, 0, "notFound")
         /\ UNCHANGED <<activeClients, accountsToReconnect, reconnectTimers, timers,
                        tokenFiles, clients, encryptionKey, accounts,
                        pendingGuardCodes, guardRequests, staleGuardTimers, resuming, games,
                        tokensDir, savedTokens, dataFile, stopped>>
    ELSE /\ CommitState(deleteAccount(Cur, u), Called("deleteAccount", u, 0, "deleted"))
         /\ accounts' = removeAccount(accounts, u)
         /\ UNCHANGED <<encryptionKey, games, tokensDir, savedTokens, dataFile, stopped>>

NextDelete ==
    \/ Next
    \/ \E u \in Accounts, userId \in Users : DeleteAccount(u, userId)

SpecDelete == Init /\ [][NextDelete]_vars

\* the specification that keeps the history of the explicit stops
InitStop == InitState /\ stopped = [tracking |-> TRUE, accounts |-> {}]

SpecStop == InitStop /\ [][Next]_vars

----------------------------------------------------------------------------
(* The bot's verification requests (bot.ts: pendingGuardCodes, the            *)
(* guardCallback of startBoost, handleGuardCode), and the specification in     *)
(* which the guardCallback of every login is that one                          *)

MaxStaleTimers == 1

\* guardCallback of startBoost up to its await of bot.sendMessage
guardCallback(M, c) ==
    Fx([M EXCEPT !.guardRequests[c] = "prompt"], "sendMessage:guard")

\* the executor of the promise guardCallback returns: the resolver is stored
\* under the username, replacing the entry there is, and a 2-minute timer is set
guardRequest(M, c) ==
    Fx([M EXCEPT !.pendingGuardCodes[M.clients[c].account.username] = c,
                 !.guardRequests[c] = "armed"], "pendingGuardCodes.set")

\* resolve(code) of the request of c: the steamGuard handler of c resumes
resolveGuard(M, c, code) ==
    onGuardCode(Fx([M EXCEPT !.guardRequests[c] = "none"], "resolveGuard"), c, code)

\* callback of the 2-minute timer set for the request of c, that request being
\* unanswered: whatever entry the username has is deleted
guardTimeout(M, c) ==
    LET username == M.clients[c].account.username IN
    IF M.pendingGuardCodes[username] # 0
    THEN resolveGuard(Fx([M EXCEPT !.pendingGuardCodes[username] = 0],
                         "pendingGuardCodes.delete"), c, "")
    ELSE [M EXCEPT !.guardRequests[c] = "expired"]

\* the same callback when its request was answered before: resolve does nothing
staleGuardTimeout(M, username) ==
    LET M1 == [M EXCEPT !.staleGuardTimers[username] = @ - 1] IN
    IF M1.pendingGuardCodes[username] # 0
    THEN Fx([M1 EXCEPT !.pendingGuardCodes[username] = 0], "pendingGuardCodes.delete")
    ELSE M1

\* /guard_<username> <code>: the timer of the answered request stays armed
handleGuardCode(M, username, code) ==
    LET pending == M.pendingGuardCodes[username] IN
    IF pending # 0
    THEN Fx(resolveGuard(Fx([M EXCEPT !.pendingGuardCodes[username] = 0,
                                      !.staleGuardTimers[username] = @ + 1],
                            "pendingGuardCodes.delete"), pending, code),
            "sendMessage:accepted")
    ELSE Fx(M, "sendMessage:notExpected")

\* what a timer callback of the request of c finds under the username
EntryOf(u, c) ==
    IF pendingGuardCodes[u] = 0 THEN "none"
    ELSE IF pendingGuardCodes[u] = c THEN "own" ELSE "other"

\* steamGuard event of c, the guardCallback being the one of startBoost
GuardEvent(c) ==
    /\ clients[c].state = "connecting"
    /\ LET M == IF clients[c].listeners THEN onSteamGuard(Emit(c, "guard"), c)
                ELSE Emit(c, "guard")
       IN Commit(IF M.clients[c].guardWait THEN guardCallback(M, c) ELSE M,
                 Seen("steamGuard", clients[c].account.username, c, ""))

\* bot.sendMessage of guardCallback has returned
GuardPromptSent(c) ==
    /\ guardRequests[c] = "prompt"
    /\ Commit(guardRequest(Cur, c), Seen("guardRequest", clients[c].account.username, c, ""))

HandleGuardCode(u, code) ==
    /\ pendingGuardCodes[u] # 0 => staleGuardTimers[u] < MaxStaleTimers
    /\ Commit(handleGuardCode(Cur, u, code),
              IF pendingGuardCodes[u] # 0
              THEN Seen("handleGuardCode", u, pendingGuardCodes[u], code)
              ELSE Called("handleGuardCode", u, 0, code))

GuardTimerFires(c) ==
    /\ guardRequests[c] = "armed"
    /\ Commit(guardTimeout(Cur, c),
              Seen("guardTimer", clients[c].account.username, c,
                   EntryOf(clients[c].account.username, c)))

StaleGuardTimerFires(u) ==
    /\ staleGuardTimers[u] > 0
    /\ Commit(staleGuardTimeout(Cur, u), Called("staleGuardTimer", u, 0, EntryOf(u, 0)))

NextGuard ==
    \/ \E u \in Accounts, cb \in BOOLEAN : Login(u, cb)
    \/ \E u \in Accounts : Logout(u)
    \/ \E u \in Accounts : \E t \in timers[u] : ReconnectTimerFires(u, t)
    \/ \E c \in ClientIds : LoginTimeoutFires(c)
    \/ \E c \in ClientIds, message \in ErrorMessages : ErrorEvent(c, message)
    \/ \E c \in ClientIds, token \in Tokens : RefreshTokenEvent(c, token)
    \/ \E c \in ClientIds : GuardEvent(c)
    \/ \E c \in ClientIds : GuardPromptSent(c)
    \/ \E u \in Accounts, code \in GuardCodes : HandleGuardCode(u, code)
    \/ \E c \in ClientIds : GuardTimerFires(c)
    \/ \E u \in Accounts : StaleGuardTimerFires(u)
    \/ \E c \in ClientIds : LoggedOnEvent(c)
    \/ \E c \in ClientIds : PlayGamesReturns(c)
    \/ \E c \in ClientIds : DisconnectedEvent(c)

SpecGuard == Init /\ [][NextGuard]_vars

\* The senders of /guard_<username> <code>: user 1 owns the stored account and
\* is the userId that startBoost records in its request; config.allowedUsers
\* holds the users 1 and 2.
Senders == {1, 2, 3}
allowedUsers == {1, 2}

\* handleGuardCode for a message of sender: msg.from is not read
GuardCodeFrom(sender, u, code) ==
    /\ pendingGuardCodes[u] # 0 => staleGuardTimers[u] < MaxStaleTimers
    /\ Commit(handleGuardCode(Cur, u, code),
              IF pendingGuardCodes[u] # 0
              THEN Seen("guardCodeFrom", u, pendingGuardCodes[u], ToString(sender))
              ELSE Called("guardCodeFrom", u, 0, ToString(sender)))

NextSender ==
    \/ \E u \in Accounts, cb \in BOOLEAN : Login(u, cb)
    \/ \E u \in Accounts : Logout(u)
    \/ \E c \in ClientIds : LoginTimeoutFires(c)
    \/ \E c \in ClientIds : GuardEvent(c)
    \/ \E c \in ClientIds : GuardPromptSent(c)
    \/ \E sender \in Senders, u \in Accounts, code \in GuardCodes : GuardCodeFrom(sender, u, code)
    \/ \E c \in ClientIds : GuardTimerFires(c)
    \/ \E u \in Accounts : StaleGuardTimerFires(u)
    \/ \E c \in ClientIds : LoggedOnEvent(c)
    \/ \E c \in ClientIds : PlayGamesReturns(c)

SpecSender == Init /\ [][NextSender]_vars

----------------------------------------------------------------------------
(* The playingState handler, and the specification that includes it.  A       *)
(* playGames call still running for an instance that is dropped ends in a      *)
(* gamesPlayed call on a client that is logged off; it is dropped with it.     *)

\* slip: a blocked account is handed to the reconnect scheduler
onPlayingStateReconnect(M, c, blocked) ==
    IF blocked THEN scheduleReconnect(Fx(M, "log:blocked"), M.clients[c].account)
    ELSE Fx([M EXCEPT !.resuming[c] = @ + 1], "playGames")

\* playGames is called without await: the handler returns at its first lookup
onPlayingState(M, c, blocked) ==
    IF blocked THEN Fx(M, "log:blocked")
    ELSE Fx([M EXCEPT !.resuming[c] = @ + 1], "playGames")

\* the playGames call of the playingState handler has finished its lookups
onGamesResumed(M, c) ==
    Fx([M EXCEPT !.resuming[c] = @ - 1], "gamesPlayed")

PlayingStateEvent(c, blocked) ==
    /\ clients[c].state = "on"
    /\ clients[c].listeners /\ ~blocked => resuming[c] < MaxPlaying
    /\ Commit(IF clients[c].listeners THEN onPlayingState(Cur, c, blocked) ELSE Cur,
              Seen("playingState", clients[c].account.username, c,
                   IF blocked THEN "blocked" ELSE "unblocked"))

GamesResumed(c) ==
    /\ resuming[c] > 0
    /\ Commit(onGamesResumed(Cur, c), Seen("gamesResumed", clients[c].account.username, c, ""))

NextPlaying ==
    \/ Next
    \/ \E c \in ClientIds, blocked \in BOOLEAN : PlayingStateEvent(c, blocked)
    \/ \E c \in ClientIds : GamesResumed(c)

SpecPlaying == Init /\ [][NextPlaying]_vars

----------------------------------------------------------------------------
(* The list handed to gamesPlayed by playGames and updateGames, and the       *)
(* specification that applies the two to every bounded list of selectors       *)

MaxGames == 3

\* a selector is a string (custom game name) or a number (AppID)
Str(s) == [string |-> s]
Num(n) == [number |-> n]
Selectors == {Str(""), Str("Foo"), Str("Bar"), Num(730), Num(440)}
GameLists == UNION {[1..n -> Selectors] : n \in 0..MaxGames}

typeof(g) == IF DOMAIN g = {"string"} THEN "string" ELSE "number"

undefined == [undefined |-> TRUE]

\* Array.prototype.find, the callback given as a function on the selectors
find(list, test) ==
    LET found == {i \in 1..Len(list) : test[list[i]]}
    IN IF found = {} THEN undefined
       ELSE list[CHOOSE i \in found : \A j \in found : i <= j]

\* truthiness of what find returned for the string test
Truthy(value) == IF value = undefined THEN FALSE ELSE value.string # ""

NonSteamGame(customGame) ==
    [game_id |-> "15190414816125648896", game_extra_info |-> customGame.string]

IsString(g) == typeof(g) = "string"
IsNumber(g) == typeof(g) = "number"

\* gamesToPlay of playGames, from account.games
playGamesList(list) ==
    LET customGame == find(list, [g \in Selectors |-> IsString(g)])
        appIds == SelectSeq(list, IsNumber)
    IN (IF Truthy(customGame) THEN <<NonSteamGame(customGame)>> ELSE <<>>) \o appIds

\* gamesToPlay of updateGames, from its argument
updateGamesList(list) ==
    LET customGame == find(list, [g \in Selectors |-> IsString(g)])
        appIds == SelectSeq(list, IsNumber)
    IN (IF Truthy(customGame) THEN <<NonSteamGame(customGame)>> ELSE <<>>) \o appIds

\* playGames(steamUser, account) as a whole: the lookups change nothing
playGames(M, c) ==
    Fx([M EXCEPT !.sent = Append(@, playGamesList(games))], "gamesPlayed")

updateGames(M, username, list) ==
    IF M.activeClients[username] = 0 THEN Fx(M, "return:false")
    ELSE Fx(Fx([M EXCEPT !.sent = Append(@, updateGamesList(list))], "gamesPlayed"),
            "return:true")

\* a registered, logged-on client as the loggedOn handler leaves it
OnlineClient(u) ==
    [state |-> "on", account |-> Account(u, [sharedSecret |-> FALSE, guardType |-> "none"]),
     listeners |-> TRUE, timeout |-> FALSE, guardCallback |-> FALSE, unattended |-> FALSE,
     result |-> "success", guardWait |-> FALSE, playing |-> 0]

\* the stored account with any list of selectors, online or not
InitGames ==
    /\ games \in GameLists
    /\ \E online \in BOOLEAN :
          /\ activeClients = [u \in Accounts |-> IF online /\ u \in Stored THEN 1 ELSE 0]
          /\ clients = [c \in ClientIds |->
                IF online /\ c = 1 THEN OnlineClient("alice") ELSE NoClient]
    /\ accountsToReconnect = [u \in Accounts |-> NoAccount]
    /\ reconnectTimers = [u \in Accounts |-> 0]
    /\ timers = [u \in Accounts |-> {}]
    /\ tokenFiles = [u \in Accounts |-> NoFile]
    /\ encryptionKey = "key-of-16-chars+"
    /\ accounts = [u \in Accounts |->
          IF u \in Stored THEN Account(u, [sharedSecret |-> FALSE, guardType |-> "none"])
          ELSE NoAccount]
    /\ pendingGuardCodes = [u \in Accounts |-> 0]
    /\ guardRequests = [c \in ClientIds |-> "none"]
    /\ staleGuardTimers = [u \in Accounts |-> 0]
    /\ resuming = [c \in ClientIds |-> 0]
    /\ tokensDir = EmptyDir
    /\ savedTokens = [id \in VaultIds |-> <<>>]
    /\ dataFile = NoEntry
    /\ stopped = NotTracked
    /\ last = [op |-> "init", acct |-> "", client |-> 0, arg |-> "", handled |-> FALSE,
               wasPending |-> FALSE,
               wasOnline |-> FALSE, wasRegistered |-> FALSE, awaited |-> FALSE,
               result |-> "none", fx |-> <<>>, sent |-> <<>>]

\* playGames called by a handler of the logged-on client c
PlayGames(c) ==
    /\ clients[c].state = "on"
    /\ clients[c].listeners
    /\ Commit(playGames(Cur, c), Seen("playGames", clients[c].account.username, c, ""))

\* updateGames(username, games)
UpdateGames(u) ==
    Commit(updateGames(Cur, u, games), Called("updateGames", u, 0, ""))

NextGames ==
    \/ \E c \in ClientIds : PlayGames(c)
    \/ \E u \in Accounts : UpdateGames(u)

SpecGames == InitGames /\ [][NextGames]_vars

----------------------------------------------------------------------------
(* The edit of an account's selectors by the bot (handleEditGames) next to a   *)
(* running session.  login keeps the Account object it was given in the        *)
(* closures of its handlers and hands it to scheduleReconnect; getAccount      *)
(* parses the data file anew on every call, so the object handleEditGames      *)
(* changes and saves is another one.  games is the list of the session's       *)
(* object, accounts[u].games the list of the stored record.                    *)

StartLists == {<<Num(730)>>, <<Str("Foo"), Num(440)>>}

\* text.split(',') has at least one piece
EditLists == GameLists \ {<<>>}

WithGames(account, list) == account @@ [games |-> list]

\* SecureStorage.addAccount, on the records the data file decrypts to
addAccount(accts, account) == [accts EXCEPT ![account.username] = account]

\* handleEditGames past its ownership check, on the state of steamFunctions.ts
handleEditGames(M, username, list) ==
    LET M1 == Fx(M, "addAccount")
    IN IF isOnline(M1, username) THEN updateGames(M1, username, list) ELSE M1

InitEdit ==
    /\ games \in StartLists
    /\ \E online \in BOOLEAN :
          /\ activeClients = [u \in Accounts |-> IF online /\ u \in Stored THEN 1 ELSE 0]
          /\ clients = [c \in ClientIds |->
                IF online /\ c = 1 THEN OnlineClient("alice") ELSE NoClient]
    /\ accountsToReconnect = [u \in Accounts |-> NoAccount]
    /\ reconnectTimers = [u \in Accounts |-> 0]
    /\ timers = [u \in Accounts |-> {}]
    /\ tokenFiles = [u \in Accounts |-> NoFile]
    /\ encryptionKey = "key-of-16-chars+"
    /\ accounts = [u \in Accounts |->
          IF u \in Stored
          THEN WithGames(Account(u, [sharedSecret |-> FALSE, guardType |-> "none"]), games)
          ELSE NoAccount]
    /\ pendingGuardCodes = [u \in Accounts |-> 0]
    /\ guardRequests = [c \in ClientIds |-> "none"]
    /\ staleGuardTimers = [u \in Accounts |-> 0]
    /\ resuming = [c \in ClientIds |-> 0]
    /\ tokensDir = EmptyDir
    /\ savedTokens = [id \in VaultIds |-> <<>>]
    /\ dataFile = NoEntry
    /\ stopped = NotTracked
    /\ last = [op |-> "init", acct |-> "", client |-> 0, arg |-> "", handled |-> FALSE,
               wasPending |-> FALSE,
               wasOnline |-> FALSE, wasRegistered |-> FALSE, awaited |-> FALSE,
               result |-> "none", fx |-> <<>>, sent |-> <<>>]

\* the text with the new list sent by userId for the account u
EditGames(u, userId, list) ==
    LET account == getAccount(accounts, u) IN
    IF account = NoAccount \/ account.ownerId # userId
    THEN /\ last' = Called("editGames", u, 0, "notFound")
         /\ UNCHANGED <<activeClients, accountsToReconnect, reconnectTimers, timers,
                        tokenFiles, clients, encryptionKey, accounts,
                        pendingGuardCodes, guardRequests, staleGuardTimers, resuming, games,
                        tokensDir, savedTokens, dataFile, stopped>>
    ELSE /\ CommitState(handleEditGames(Cur, u, list), Called("editGames", u, 0, "saved"))
         /\ accounts' = addAccount(accounts, [account EXCEPT !.games = list])
         /\ UNCHANGED <<encryptionKey, games, tokensDir, savedTokens, dataFile, stopped>>

NextEdit ==
    \/ \E u \in Accounts, userId \in Users, list \in EditLists : EditGames(u, userId, list)
    \/ \E c \in ClientIds : PlayGames(c)

SpecEdit == InitEdit /\ [][NextEdit]_vars

----------------------------------------------------------------------------
(* The specification with two stored accounts, both with mobile guard and no  *)
(* shared secret: a reconnect is allowed once a token is on file              *)

InitTwo ==
    /\ activeClients = [u \in Accounts |-> 0]
    /\ accountsToReconnect = [u \in Accounts |-> NoAccount]
    /\ reconnectTimers = [u \in Accounts |-> 0]
    /\ timers = [u \in Accounts |-> {}]
    /\ tokenFiles = [u \in Accounts |-> NoFile]
    /\ clients = [c \in ClientIds |-> NoClient]
    /\ encryptionKey = "key-of-16-chars+"
    /\ accounts = [u \in Accounts |-> Account(u, [sharedSecret |-> FALSE, guardType |-> "mobile"])]
    /\ pendingGuardCodes = [u \in Accounts |-> 0]
    /\ guardRequests = [c \in ClientIds |-> "none"]
    /\ staleGuardTimers = [u \in Accounts |-> 0]
    /\ resuming = [c \in ClientIds |-> 0]
    /\ tokensDir = EmptyDir
    /\ savedTokens = [id \in VaultIds |-> <<>>]
    /\ dataFile = NoEntry
    /\ stopped = NotTracked
    /\ games = <<>>
    /\ last = [op |-> "init", acct |-> "", client |-> 0, arg |-> "", handled |-> FALSE,
               wasPending |-> FALSE,
               wasOnline |-> FALSE, wasRegistered |-> FALSE, awaited |-> FALSE,
               result |-> "none", fx |-> <<>>, sent |-> <<>>]

SpecTwo == InitTwo /\ [][Next]_vars

----------------------------------------------------------------------------
(* The token vault on the files of TOKENS_DIR (saveToken, loadToken,          *)
(* deleteToken, hasToken, cleanCache) with the envelope of crypto.ts, and the  *)
(* specification of the vault alone.  The session specifications above keep,   *)
(* for a token file, the token it decrypts to.                                 *)

MaxSaves == 2

VaultTokens == {"", "T1", "T2"}
null == "<null>"
Passphrase == "key-of-16-chars+"
OldPassphrase == "key-of-another-run"

\* crypto.randomBytes for the salt and for the iv
Salts == {"s1", "s2"}
IVs == {"iv1"}

\* the derived key is a function of the password and the salt, one to one
pbkdf2Sync(password, salt) == [password |-> password, salt |-> salt]

\* the tag of aes-256-gcm authenticates the ciphertext under the key and the iv
AuthTag(key, iv, encrypted) == [key |-> key, iv |-> iv, encrypted |-> encrypted]

Thrown == [threw |-> TRUE]
Value(v) == [threw |-> FALSE, value |-> v]

\* salt, iv, tag and ciphertext, concatenated and base64 encoded
encrypt(text, password, salt, iv) ==
    LET key == pbkdf2Sync(password, salt)
        encrypted == [key |-> key, iv |-> iv, text |-> text]
    IN [salt |-> salt, iv |-> iv, tag |-> AuthTag(key, iv, encrypted), encrypted |-> encrypted]

\* bytes that are no envelope at all
Garbage == [garbage |-> TRUE]

\* slip: the key is derived with a fixed salt, not the one of the envelope
decryptFixedSalt(encryptedData, password) ==
    IF encryptedData = Garbage THEN Thrown
    ELSE LET key == pbkdf2Sync(password, "s1") IN
         IF encryptedData.tag = AuthTag(key, encryptedData.iv, encryptedData.encrypted)
         THEN Value(encryptedData.encrypted.text)
         ELSE Thrown

\* decipher.final throws when the tag does not verify
decrypt(encryptedData, password) ==
    IF encryptedData = Garbage THEN Thrown
    ELSE LET key == pbkdf2Sync(password, encryptedData.salt) IN
         IF encryptedData.tag = AuthTag(key, encryptedData.iv, encryptedData.encrypted)
         THEN Value(encryptedData.encrypted.text)
         ELSE Thrown

\* JSON.stringify and JSON.parse; NotJson is a text that does not parse
stringify(value) == [json |-> value]
NotJson == [plain |-> "T1"]
parse(text) == IF DOMAIN text = {"json"} THEN Value(text.json) ELSE Thrown

\* old: the file was modified more than 7 days ago
File(data, old) == [kind |-> "file", data |-> data, old |-> old]

vaultSave(dir, key, username, token, salt, iv) ==
    IF key = "" THEN dir
    ELSE [dir EXCEPT ![TokenFile(username)] =
             File(encrypt(stringify([refreshToken |-> token]), key, salt, iv), FALSE)]

\* slip: a record that cannot be read is left in place
vaultLoadKeepCorrupt(dir, key, username) ==
    LET tokenPath == TokenFile(username) IN
    IF key = "" THEN [dir |-> dir, result |-> null]
    ELSE IF dir[tokenPath] = NoEntry THEN [dir |-> dir, result |-> null]
    ELSE LET decrypted == decrypt(dir[tokenPath].data, key)
             data == IF decrypted.threw THEN Thrown ELSE parse(decrypted.value)
         IN IF data.threw
            THEN [dir |-> dir, result |-> null]
            ELSE [dir |-> dir,
                  result |-> IF data.value.refreshToken # "" THEN data.value.refreshToken
                             ELSE null]

\* loadToken: the directory it leaves and the value it returns
vaultLoad(dir, key, username) ==
    LET tokenPath == TokenFile(username) IN
    IF key = "" THEN [dir |-> dir, result |-> null]
    ELSE IF dir[tokenPath] = NoEntry THEN [dir |-> dir, result |-> null]
    ELSE LET decrypted == decrypt(dir[tokenPath].data, key)
             data == IF decrypted.threw THEN Thrown ELSE parse(decrypted.value)
         IN IF data.threw
            THEN [dir |-> [dir EXCEPT ![tokenPath] = NoEntry], result |-> null]
            ELSE [dir |-> dir,
                  result |-> IF data.value.refreshToken # "" THEN data.value.refreshToken
                             ELSE null]

vaultDelete(dir, username) == [dir EXCEPT ![TokenFile(username)] = NoEntry]

endsWith(file, suffix) == file[Len(file)] = suffix
includes(file, part) == \E i \in 1..Len(file) : file[i] = part

\* slip: the records of the vault are not skipped
cleanCacheNoSkip(dir) ==
    [file \in FileNames |->
        IF dir[file] = NoEntry THEN NoEntry
        ELSE LET isOld == dir[file].old
                 isCacheFile == includes(file, "sentry") \/ includes(file, "machine")
                                \/ endsWith(file, ".bin")
             IN IF isCacheFile \/ isOld THEN NoEntry ELSE dir[file]]

cleanCache(dir) ==
    [file \in FileNames |->
        IF dir[file] = NoEntry THEN NoEntry
        ELSE IF endsWith(file, ".token") THEN dir[file]
        ELSE LET isOld == dir[file].old
                 isCacheFile == includes(file, "sentry") \/ includes(file, "machine")
                                \/ endsWith(file, ".bin")
             IN IF isCacheFile \/ isOld THEN NoEntry ELSE dir[file]]

SessionVars ==
    <<activeClients, accountsToReconnect, reconnectTimers, timers, tokenFiles, clients,
      accounts, pendingGuardCodes, guardRequests, staleGuardTimers, resuming, games,
      dataFile, stopped>>

\* what a call on the vault was and what it returned
VaultCalled(op, id, arg, result) ==
    [op |-> op, acct |-> id, client |-> 0, arg |-> arg, handled |-> TRUE,
     wasPending |-> FALSE, wasOnline |-> FALSE, wasRegistered |-> FALSE, awaited |-> FALSE,
     result |-> result, fx |-> <<>>, sent |-> <<>>]

\* what is in the directory when the process starts: records of an earlier run
\* under another passphrase, damaged records, a record whose text is no JSON
SeedRecords ==
    { NoEntry,
      File(encrypt(stringify([refreshToken |-> "T1"]), OldPassphrase, "s1", "iv1"), TRUE),
      File([encrypt(stringify([refreshToken |-> "T1"]), Passphrase, "s1", "iv1")
               EXCEPT !.encrypted.text = stringify([refreshToken |-> "T2"])], FALSE),
      File(encrypt(NotJson, Passphrase, "s2", "iv1"), FALSE),
      File(Garbage, FALSE) }

InitVault ==
    /\ activeClients = [u \in Accounts |-> 0]
    /\ accountsToReconnect = [u \in Accounts |-> NoAccount]
    /\ reconnectTimers = [u \in Accounts |-> 0]
    /\ timers = [u \in Accounts |-> {}]
    /\ tokenFiles = [u \in Accounts |-> NoFile]
    /\ clients = [c \in ClientIds |-> NoClient]
    /\ accounts = [u \in Accounts |-> NoAccount]
    /\ pendingGuardCodes = [u \in Accounts |-> 0]
    /\ guardRequests = [c \in ClientIds |-> "none"]
    /\ staleGuardTimers = [u \in Accounts |-> 0]
    /\ resuming = [c \in ClientIds |-> 0]
    /\ games = <<>>
    /\ encryptionKey = ""
    /\ \E seed \in SeedRecords, cache \in BOOLEAN :
          tokensDir = [file \in FileNames |->
              IF endsWith(file, ".token") THEN seed
              ELSE IF cache THEN File(Garbage, FALSE) ELSE NoEntry]
    /\ savedTokens = [id \in VaultIds |-> <<>>]
    /\ dataFile = NoEntry
    /\ stopped = NotTracked
    /\ last = VaultCalled("init", "", "", "none")

\* the bot's constructor, once
SetEncryptionKey(key) ==
    /\ encryptionKey = ""
    /\ encryptionKey' = key
    /\ last' = VaultCalled("setEncryptionKey", "", key, "none")
    /\ UNCHANGED <<SessionVars, tokensDir, savedTokens>>

SaveToken(id, token, salt, iv) ==
    /\ Len(savedTokens[id]) < MaxSaves
    /\ tokensDir' = vaultSave(tokensDir, encryptionKey, id, token, salt, iv)
    /\ savedTokens' = IF encryptionKey = "" THEN savedTokens
                      ELSE [savedTokens EXCEPT ![id] = Append(@, token)]
    /\ last' = VaultCalled("saveToken", id, token, "none")
    /\ UNCHANGED <<SessionVars, encryptionKey>>

\* arg: whether there was a file for the identifier
LoadToken(id) ==
    /\ LET loaded == vaultLoad(tokensDir, encryptionKey, id) IN
          /\ tokensDir' = loaded.dir
          /\ last' = VaultCalled("loadToken", id,
                         IF tokensDir[TokenFile(id)] = NoEntry THEN "none" ELSE "file",
                         loaded.result)
    /\ UNCHANGED <<SessionVars, encryptionKey, savedTokens>>

\* hasToken: loadToken(username) !== null
HasToken(id) ==
    /\ LET loaded == vaultLoad(tokensDir, encryptionKey, id) IN
          /\ tokensDir' = loaded.dir
          /\ last' = VaultCalled("hasToken", id,
                         IF tokensDir[TokenFile(id)] = NoEntry THEN "none" ELSE "file",
                         IF loaded.result # null THEN "true" ELSE "false")
    /\ UNCHANGED <<SessionVars, encryptionKey, savedTokens>>

DeleteToken(id) ==
    /\ tokensDir' = vaultDelete(tokensDir, id)
    /\ savedTokens' = [savedTokens EXCEPT ![id] = <<>>]
    /\ last' = VaultCalled("deleteToken", id,
                   IF tokensDir[TokenFile(id)] = NoEntry THEN "none" ELSE "file", "none")
    /\ UNCHANGED <<SessionVars, encryptionKey>>

\* at module load and every 6 hours; arg: whether it removed anything
CleanCache ==
    /\ tokensDir' = cleanCache(tokensDir)
    /\ last' = VaultCalled("cleanCache", "",
                   IF cleanCache(tokensDir) = tokensDir THEN "kept" ELSE "cleaned", "none")
    /\ UNCHANGED <<SessionVars, encryptionKey, savedTokens>>

\* seven days pass without a write
FilesAge ==
    /\ \E file \in FileNames : tokensDir[file] # NoEntry /\ ~tokensDir[file].old
    /\ tokensDir' = [file \in FileNames |->
          IF tokensDir[file] = NoEntry THEN NoEntry ELSE [tokensDir[file] EXCEPT !.old = TRUE]]
    /\ last' = VaultCalled("age", "", "", "none")
    /\ UNCHANGED <<SessionVars, encryptionKey, savedTokens>>

\* the client library, or anything else, writes a file that is no record
CacheWritten(file) ==
    /\ tokensDir[file] = NoEntry
    /\ tokensDir' = [tokensDir EXCEPT ![file] = File(Garbage, FALSE)]
    /\ last' = VaultCalled("cacheWrite", "", "", "none")
    /\ UNCHANGED <<SessionVars, encryptionKey, savedTokens>>

NextVault ==
    \/ SetEncryptionKey(Passphrase)
    \/ \E id \in VaultIds, token \in VaultTokens, salt \in Salts, iv \in IVs :
          SaveToken(id, token, salt, iv)
    \/ \E id \in VaultIds : LoadToken(id)
    \/ \E id \in VaultIds : HasToken(id)
    \/ \E id \in VaultIds : DeleteToken(id)
    \/ CleanCache
    \/ FilesAge
    \/ \E file \in CacheFiles : CacheWritten(file)

SpecVault == InitVault /\ [][NextVault]_vars

----------------------------------------------------------------------------
(* The storage of the accounts (storage.ts) on its file data/accounts.enc,     *)
(* with the envelope of crypto.ts, and the specification of the storage alone. *)
(* The session specifications above keep, in accounts, the records the file    *)
(* decrypts to.                                                                *)

Passwords == {"pw", "pw2"}

\* an Account as the bot adds it
Record(username, password) ==
    [Account(username, [sharedSecret |-> FALSE, guardType |-> "none"])
        EXCEPT !.password = password]

\* saveAccounts: the file it writes
saveAccounts(key, accts, salt, iv) ==
    File(encrypt(stringify(accts), key, salt, iv), FALSE)

\* loadAccounts: no records when there is no file, and when the file does not
\* decrypt or parse
loadAccounts(file, key) ==
    IF file = NoEntry THEN <<>>
    ELSE LET decrypted == decrypt(file.data, key)
             data == IF decrypted.threw THEN Thrown ELSE parse(decrypted.value)
         IN IF data.threw THEN <<>> ELSE data.value

\* Array.prototype.findIndex, 0 for -1
findIndex(accts, username) ==
    LET found == {i \in 1..Len(accts) : accts[i].username = username}
    IN IF found = {} THEN 0 ELSE CHOOSE i \in found : \A j \in found : i <= j

\* SecureStorage.addAccount on the file
storageAdd(file, key, account, salt, iv) ==
    LET accts == loadAccounts(file, key)
        existingIndex == findIndex(accts, account.username)
    IN saveAccounts(key,
                    IF existingIndex > 0 THEN [accts EXCEPT ![existingIndex] = account]
                    ELSE Append(accts, account),
                    salt, iv)

\* SecureStorage.removeAccount on the file: the file it leaves and its result
storageRemove(file, key, username, salt, iv) ==
    LET accts == loadAccounts(file, key)
        filtered == SelectSeq(accts, LAMBDA a : a.username # username)
    IN IF Len(filtered) = Len(accts) THEN [file |-> file, result |-> "false"]
       ELSE [file |-> saveAccounts(key, filtered, salt, iv), result |-> "true"]

\* what data/accounts.enc is when the process starts: absent, written by an
\* earlier run under this passphrase or under another one, damaged, or no
\* envelope at all
SeedFiles ==
    { NoEntry,
      saveAccounts(Passphrase, <<Record("bob", "pw")>>, "s1", "iv1"),
      saveAccounts(OldPassphrase, <<Record("bob", "pw")>>, "s1", "iv1"),
      [saveAccounts(Passphrase, <<Record("bob", "pw")>>, "s1", "iv1")
          EXCEPT !.data.tag = AuthTag(pbkdf2Sync(Passphrase, "s1"), "iv1",
                                      [key |-> pbkdf2Sync(Passphrase, "s1"), iv |-> "iv1",
                                       text |-> stringify(<<>>)])],
      File(Garbage, FALSE) }

InitStorage ==
    /\ activeClients = [u \in Accounts |-> 0]
    /\ accountsToReconnect = [u \in Accounts |-> NoAccount]
    /\ reconnectTimers = [u \in Accounts |-> 0]
    /\ timers = [u \in Accounts |-> {}]
    /\ tokenFiles = [u \in Accounts |-> NoFile]
    /\ clients = [c \in ClientIds |-> NoClient]
    /\ accounts = [u \in Accounts |-> NoAccount]
    /\ pendingGuardCodes = [u \in Accounts |-> 0]
    /\ guardRequests = [c \in ClientIds |-> "none"]
    /\ staleGuardTimers = [u \in Accounts |-> 0]
    /\ resuming = [c \in ClientIds |-> 0]
    /\ games = <<>>
    /\ encryptionKey = Passphrase
    /\ tokensDir = EmptyDir
    /\ savedTokens = [id \in VaultIds |-> <<>>]
    /\ dataFile \in SeedFiles
    /\ stopped = NotTracked
    /\ last = VaultCalled("init", "", "", "none")

StorageFrame ==
    UNCHANGED <<activeClients, accountsToReconnect, reconnectTimers, timers, tokenFiles,
                clients, accounts, pendingGuardCodes, guardRequests, staleGuardTimers,
                resuming, games, encryptionKey, tokensDir, savedTokens, stopped>>

\* arg: the password of the record added
AddAccount(account, salt, iv) ==
    /\ dataFile' = storageAdd(dataFile, encryptionKey, account, salt, iv)
    /\ last' = VaultCalled("addAccount", account.username, account.password, "none")
    /\ StorageFrame

RemoveAccount(username, salt, iv) ==
    /\ LET removed == storageRemove(dataFile, encryptionKey, username, salt, iv) IN
          /\ dataFile' = removed.file
          /\ last' = VaultCalled("removeAccount", username, "", removed.result)
    /\ StorageFrame

\* SecureStorage.getAccount on the file; result: the password of the record found
GetAccount(username) ==
    /\ LET accts == loadAccounts(dataFile, encryptionKey)
           index == findIndex(accts, username)
       IN last' = VaultCalled("getAccount", username, "",
                      IF index = 0 THEN "undefined" ELSE accts[index].password)
    /\ UNCHANGED dataFile
    /\ StorageFrame

NextStorage ==
    \/ \E u \in Accounts : GetAccount(u)
    \/ \E u \in Accounts, password \in Passwords, salt \in Salts, iv \in IVs :
          AddAccount(Record(u, password), salt, iv)
    \/ \E u \in Accounts, salt \in Salts, iv \in IVs : RemoveAccount(u, salt, iv)

SpecStorage == InitStorage /\ [][NextStorage]_vars

----------------------------------------------------------------------------
(* Structure of the state *)

ClientsOf(u) == {c \in ClientIds : clients[c].state # "none" /\ clients[c].account.username = u}

Has(fx, call) == \E i \in 1..Len(fx) : fx[i] = call

Count(fx, calls) == Cardinality({i \in 1..Len(fx) : fx[i] \in calls})

First(fx, call) == CHOOSE i \in 1..Len(fx) : fx[i] = call /\ \A j \in 1..(i - 1) : fx[j] # call

TypeOK ==
    /\ \A u \in Accounts :
          /\ activeClients[u] \in ClientIds \cup {0}
          /\ activeClients[u] # 0 =>
                /\ clients[activeClients[u]].account.username = u
                /\ clients[activeClients[u]].state = "on"
                /\ clients[activeClients[u]].listeners
          /\ reconnectTimers[u] # 0 <=> accountsToReconnect[u] # NoAccount
          /\ timers[u] = {reconnectTimers[u]} \ {0}
          /\ tokenFiles[u] \in {NoFile, Corrupt} \cup Tokens
    /\ \A c \in ClientIds :
          /\ clients[c].state \in {"none", "connecting", "guard", "on", "disc", "off"}
          /\ clients[c].playing \in 0..MaxPlaying
          /\ clients[c].state = "none" => clients[c] = NoClient
          /\ clients[c].result = "pending" => clients[c].timeout \/ clients[c].playing > 0
          /\ c > 1 /\ clients[c].state # "none" => clients[c - 1].state # "none"

----------------------------------------------------------------------------
(* Claims *)

LoggedOn(u) == {c \in ClientsOf(u) : clients[c].state = "on"}

\* C1: for every account identifier there are never two clients that are both
\* logged on and not yet logged off.
C1_AtMostOneLiveSession ==
    \A u \in Accounts : Cardinality(LoggedOn(u)) <= 1

Pending(u) == reconnectTimers[u] # 0 \/ accountsToReconnect[u] # NoAccount

\* C2: no account is at the same time in the Session Registry and in the
\* pending-reconnect set.
C2_RegistryExcludesPending ==
    \A u \in Accounts : ~(isOnline(Cur, u) /\ Pending(u))

\* C3: for every account identifier the number of armed reconnect timers never
\* exceeds one.
C3_AtMostOneArmedTimer ==
    \A u \in Accounts : Cardinality(timers[u]) <= 1

\* the timer callback's login failed with LoggedInElsewhere: the error handler
\* armed a timer and the callback then called scheduleReconnect again
C3_Witness ==
    /\ last.op = "error"
    /\ last.awaited
    /\ Count(last.fx, {"schedule:armed"}) = 1
    /\ Count(last.fx, {"schedule:already"}) = 1
    /\ Cardinality(timers[last.acct]) = 1

\* a client whose login call can still change the registry, the pending
\* reconnects or the vault: its observers are attached, its connect timeout is
\* armed or one of its handlers is suspended
InFlight(u) ==
    {c \in ClientsOf(u) :
        \/ clients[c].listeners
        \/ clients[c].timeout
        \/ clients[c].guardWait
        \/ clients[c].playing > 0}

\* C4: a login for an identifier tears down the earlier attempt for it, so
\* that only the newest attempt's client is left to mutate the state.
C4_SingleAttemptInFlight ==
    last.op = "login" => InFlight(last.acct) = {last.client}

ScheduleCalls == {"schedule:armed", "schedule:already", "schedule:ineligible"}
LogOnCalls == {"logOn:token", "logOn:password"}

\* the eligibility rule of the specification, on the stored state
Eligible(u) ==
    \/ encryptionKey # "" /\ tokenFiles[u] \in Tokens
    \/ accounts[u].sharedSecret
    \/ accounts[u].guardType = "none"

Ineligible(u) == accounts[u] # NoAccount /\ ~Eligible(u)

C6_TimerFire ==
    last.op = "reconnectTimer" =>
        LET u == last.acct IN
        /\ ~Pending(u)
        /\ timers[u] = {}
        /\ IF last.wasOnline
           THEN /\ Count(last.fx, LogOnCalls) = 0
                /\ last.client = 0
                /\ isOnline(Cur, u)
           ELSE /\ Count(last.fx, LogOnCalls) = 1
                /\ last.client # 0
                /\ clients[last.client].state = "connecting"
                /\ clients[last.client].account = accounts[u]
                /\ clients[last.client].unattended
                /\ ~clients[last.client].guardCallback
                /\ ~isOnline(Cur, u)

C6_Witness ==
    /\ last.op = "reconnectTimer"
    /\ ~last.wasOnline
    /\ last.client # 0
    /\ clients[last.client].unattended

C6_WitnessSkip ==
    /\ last.op = "reconnectTimer"
    /\ last.wasOnline

\* the login awaited by a reconnect timer callback has just failed with
\* LoggedInElsewhere, and the callback has run on
UnattendedFailedElsewhere ==
    /\ last.op = "error"
    /\ last.arg = "LoggedInElsewhere"
    /\ last.handled
    /\ last.awaited

Core(M) == [M EXCEPT !.fx = <<>>, !.sent = <<>>]

\* C8: for an eligible account a second scheduleReconnect in a row leaves the
\* state of the first, with exactly one record and exactly one armed timer.
C8_ScheduleIdempotent ==
    \A u \in Accounts :
        accounts[u] # NoAccount /\ Eligible(u) =>
            LET once == scheduleReconnect(Cur, accounts[u])
                twice == scheduleReconnect(once, accounts[u])
            IN /\ Core(twice) = Core(once)
               /\ Cardinality(twice.timers[u]) = 1
               /\ twice.reconnectTimers[u] \in twice.timers[u]
               /\ twice.accountsToReconnect[u] = accounts[u]

\* a handler has just called scheduleReconnect twice in a row for an account
\* that had no pending reconnect
C8_Witness ==
    /\ Has(last.fx, "schedule:armed")
    /\ Has(last.fx, "schedule:already")
    /\ reconnectTimers[last.acct] # 0
    /\ timers[last.acct] = {reconnectTimers[last.acct]}
    /\ accountsToReconnect[last.acct] = accounts[last.acct]

\* the registered client of an account has emitted disconnected
ActiveDisconnected == last.op = "disconnected" /\ last.wasRegistered

C9_Original ==
    ActiveDisconnected =>
        /\ ~isOnline(Cur, last.acct)
        /\ Has(last.fx, "notify:disconnected")
        /\ Pending(last.acct)

\* C9: a disconnected event from the client of an Active account removes the
\* account from the Registry, notifies the owner and calls scheduleReconnect;
\* a pending reconnect exists afterwards when the account is eligible.
C9_DisconnectedWhileActive ==
    ActiveDisconnected =>
        /\ ~isOnline(Cur, last.acct)
        /\ Has(last.fx, "notify:disconnected")
        /\ Count(last.fx, ScheduleCalls) = 1
        /\ Eligible(last.acct) =>
              /\ Pending(last.acct)
              /\ Cardinality(timers[last.acct]) = 1
        /\ Has(last.fx, "schedule:ineligible") => ~Pending(last.acct) /\ ~Eligible(last.acct)

C9_Witness ==
    /\ ActiveDisconnected
    /\ Has(last.fx, "schedule:armed")
    /\ accounts[last.acct].guardType = "mobile"
    /\ Pending(last.acct)

LoginStarted == last.client # 0 /\ last.op \in {"login", "reconnectTimer"}

\* C10: login first cancels the pending reconnect (timer, then record), then
\* detaches, logs off and deregisters a registered handle, and only then
\* issues logOn on the new handle.
C10_LoginOrder ==
    LoginStarted =>
        LET fx == last.fx
            u == last.acct
            logOnAt == CHOOSE i \in 1..Len(fx) : fx[i] \in LogOnCalls
        IN /\ Count(fx, LogOnCalls) = 1
           /\ Count(fx, {"accountsToReconnect.delete"}) = 1
           /\ First(fx, "accountsToReconnect.delete") < logOnAt
           /\ Has(fx, "clearTimeout:reconnect") =>
                 First(fx, "clearTimeout:reconnect") < First(fx, "accountsToReconnect.delete")
           /\ last.wasOnline <=> Has(fx, "logOff")
           /\ last.wasOnline =>
                 /\ First(fx, "accountsToReconnect.delete") < First(fx, "removeAllListeners")
                 /\ First(fx, "removeAllListeners") < First(fx, "logOff")
                 /\ First(fx, "logOff") < First(fx, "activeClients.delete")
                 /\ First(fx, "activeClients.delete") < logOnAt
           /\ ~Pending(u)
           /\ timers[u] = {}
           /\ ~isOnline(Cur, u)
           /\ clients[last.client].state = "connecting"

\* a login for an account that was registered and had a reconnect timer armed
C10_Witness ==
    /\ last.op = "login"
    /\ last.wasOnline
    /\ Has(last.fx, "clearTimeout:reconnect")
    /\ Has(last.fx, "logOff")

----------------------------------------------------------------------------
(* Claims on the event handlers of login *)

\* the loggedOn handler of a client has run up to its await
LoggedOnHandled == last.op = "loggedOn" /\ last.handled

\* playGames has returned to the loggedOn handler
GamesSubmitted == last.op = "gamesPlayed"

\* what the handler does before it suspends
LoggedOnRegisters ==
    LoggedOnHandled =>
        /\ activeClients[last.acct] = last.client
        /\ isOnline(Cur, last.acct)
        /\ clients[last.client].state = "on"
        /\ ~clients[last.client].timeout
        /\ clients[last.client].playing > 0
        /\ last.fx = <<"clearTimeout", "activeClients.set", "setPersona">>

\* C11: the loggedOn handler registers its handle under the account
\* identifier and sets the presence state, the activity selectors are
\* submitted, and the call resolves with success.
C11_LoggedOnResolves ==
    /\ LoggedOnRegisters
    /\ GamesSubmitted => Has(last.fx, "gamesPlayed") /\ last.result = "success"

\* C12: the options login passes to logOn are the saved token alone (no
\* account name, no password, no one-time code) when a saved token loads, and
\* otherwise the account name and the password, with a one-time code if and
\* only if the account has a shared secret.
C12_LogOnOptions ==
    LoginStarted =>
        LET u == last.acct
            account == clients[last.client].account
        IN /\ Len(last.sent) = 1
           /\ account = accounts[u]
           /\ IF encryptionKey # "" /\ tokenFiles[u] \in Tokens
              THEN last.sent[1] = [refreshToken |-> tokenFiles[u], accountName |-> "",
                                   password |-> "", twoFactorCode |-> FALSE]
              ELSE /\ tokenFiles[u] = NoFile
                   /\ last.sent[1] = [refreshToken |-> "", accountName |-> u,
                                      password |-> account.password,
                                      twoFactorCode |-> account.sharedSecret]

\* a login with a saved token for an account that has a shared secret
C12_Witness ==
    /\ LoginStarted
    /\ accounts[last.acct].sharedSecret
    /\ last.sent = <<[refreshToken |-> "T1", accountName |-> "", password |-> "",
                      twoFactorCode |-> FALSE]>>

\* a password login with a one-time code, the token record being unreadable
C12_WitnessPassword ==
    /\ LoginStarted
    /\ last.sent = <<[refreshToken |-> "", accountName |-> last.acct, password |-> "pw",
                      twoFactorCode |-> TRUE]>>

TransientErrors == {"LoggedInElsewhere", "LogonSessionReplaced", "RateLimitExceeded"}
CredentialErrors == {"InvalidPassword", "AccessDenied", "Expired"}

\* the error handler of a client has run for an error of the transient class
TransientHandled == last.op = "error" /\ last.handled /\ last.arg \in TransientErrors

C13_Original ==
    TransientHandled =>
        /\ ~isOnline(Cur, last.acct)
        /\ Count(last.fx, ScheduleCalls) >= 1
        /\ Eligible(last.acct) => Pending(last.acct)
        /\ ~Has(last.fx, "deleteToken")
        /\ last.result = last.arg

\* C13: an error of the transient class removes the account from the
\* Registry, calls scheduleReconnect (a pending reconnect exists afterwards
\* when the account is eligible), leaves the token file as it was and, when
\* the login call has not been resolved yet, resolves it with failure
\* carrying the error; a call resolved earlier keeps its success.
C13_TransientError ==
    [][\A u \in Accounts : TransientHandled' /\ last'.acct = u =>
          /\ activeClients'[u] = 0
          /\ Count(last'.fx, ScheduleCalls) >= 1
          /\ Eligible(u)' =>
                /\ reconnectTimers'[u] # 0
                /\ timers'[u] = {reconnectTimers'[u]}
                /\ accountsToReconnect'[u] # NoAccount
          /\ Has(last'.fx, "schedule:ineligible") => ~Eligible(u)'
          /\ tokenFiles' = tokenFiles
          /\ IF last'.wasPending
             THEN Has(last'.fx, "resolve:failure") /\ last'.result = last'.arg
             ELSE ~Has(last'.fx, "resolve:failure") /\ last'.result = "success"]_vars

\* a login in flight fails with RateLimitExceeded while the account has a
\* saved token
C13_Witness ==
    /\ TransientHandled
    /\ last.arg = "RateLimitExceeded"
    /\ last.wasPending
    /\ last.result = "RateLimitExceeded"
    /\ tokenFiles[last.acct] \in Tokens
    /\ Pending(last.acct)
    /\ ~isOnline(Cur, last.acct)

\* the error handler of a client has run for an error of the credential class
CredentialHandled == last.op = "error" /\ last.handled /\ last.arg \in CredentialErrors

PasswordOptions(options, u) ==
    /\ options.refreshToken = ""
    /\ options.accountName = u
    /\ options.password = accounts[u].password

C14_Original ==
    CredentialHandled =>
        /\ tokenFiles[last.acct] = NoFile
        /\ ~isOnline(Cur, last.acct)
        /\ Count(last.fx, ScheduleCalls) = 0
        /\ last.result = last.arg

\* C14: an error of the credential class deletes the token file, removes the
\* account from the Registry, creates no pending reconnect and, when the
\* login call has not been resolved yet, resolves it with failure; while the
\* token file is absent a login builds password options, and only a
\* refreshToken event creates the file again.
C14_CredentialError ==
    [][\A u \in Accounts :
          /\ CredentialHandled' /\ last'.acct = u =>
                /\ Has(last'.fx, "deleteToken")
                /\ tokenFiles'[u] = NoFile
                /\ activeClients'[u] = 0
                /\ Count(last'.fx, ScheduleCalls) = 0
                /\ reconnectTimers'[u] = reconnectTimers[u]
                /\ timers'[u] = timers[u]
                /\ accountsToReconnect'[u] = accountsToReconnect[u]
                /\ IF last'.wasPending
                   THEN Has(last'.fx, "resolve:failure") /\ last'.result = last'.arg
                   ELSE ~Has(last'.fx, "resolve:failure") /\ last'.result = "success"
          /\ LoginStarted' /\ last'.acct = u /\ tokenFiles[u] = NoFile =>
                /\ Len(last'.sent) = 1
                /\ PasswordOptions(last'.sent[1], u)
          /\ tokenFiles[u] = NoFile /\ tokenFiles'[u] # NoFile =>
                /\ last'.op = "refreshToken"
                /\ last'.handled
                /\ last'.acct = u]_vars

\* a login in flight fails with Expired and the token file is gone
C14_Witness ==
    /\ CredentialHandled
    /\ last.arg = "Expired"
    /\ last.wasPending
    /\ last.result = "Expired"
    /\ Has(last.fx, "deleteToken")
    /\ tokenFiles[last.acct] = NoFile
    /\ ~Pending(last.acct)

\* the steamGuard handler found no guardCallback, or its guardCallback has
\* returned without a code
NoCallback == last.op = "steamGuard" /\ last.handled /\ ~Has(last.fx, "guardCallback")
NoCode == last.op = "guardCode" /\ last.arg = ""

\* C15: when verification is requested and there is no callback, or the
\* callback yields no code, the call fails with the verification failure, the
\* observers of the client are detached, the Registry is not changed and no
\* reconnect is scheduled, also for an attempt started by a reconnect timer.
C15_VerificationUnavailable ==
    [][/\ NoCallback' => last'.result = GuardNoCallback
       /\ NoCode' => last'.result = GuardNotProvided
       /\ NoCallback' \/ NoCode' =>
             /\ Has(last'.fx, "removeAllListeners")
             /\ Has(last'.fx, "resolve:failure")
             /\ Count(last'.fx, ScheduleCalls) = 0
             /\ activeClients' = activeClients
             /\ reconnectTimers' = reconnectTimers
             /\ timers' = timers
             /\ accountsToReconnect' = accountsToReconnect]_vars

\* the guardCallback of a login has just returned a code
CodeReturned == last.op = "guardCode" /\ last.arg # ""

\* C16: the code a guardCallback returns is the code submitted to the client,
\* whenever it returns; the login call is then still unresolved, and the
\* loggedOn event that follows is handled and puts the account in the Registry.
C16_VerificationWait ==
    [][\A u \in Accounts :
          CodeReturned /\ last.acct = u =>
             /\ last.sent = <<[code |-> last.arg]>>
             /\ last.result = "pending"
             /\ (ClientsOf(u) = {last.client} /\ last'.op = "loggedOn" /\ last'.acct = u) =>
                   /\ last'.handled
                   /\ activeClients'[u] = last'.client
                   /\ activeClients'[u] # 0]_vars

\* the connect timeout of a client has fired
TimedOut == last.op = "loginTimeout"

\* an event of a client, or the return of a call one of its handlers awaited,
\* after the connect timeout of the client's login has fired
AfterTimeout ==
    /\ last.op \in {"error", "refreshToken", "steamGuard", "guardCode", "loggedOn",
                    "gamesPlayed", "disconnected"}
    /\ last.result = LoginTimeoutError

\* the registered handle of u, by value
Registered(u) == IF activeClients[u] = 0 THEN NoClient ELSE clients[activeClients[u]]

\* C17: when the connect timeout fires the call is still unresolved and is
\* resolved with the timeout failure, the observers of the client are
\* detached and no reconnect is scheduled; nothing that comes from that
\* client later changes the Registry, the pending reconnects or the token
\* files.
C17_ConnectTimeout ==
    [][/\ TimedOut' =>
             /\ last'.wasPending
             /\ last'.result = LoginTimeoutError
             /\ last'.fx = <<"removeAllListeners", "resolve:failure">>
             /\ ~clients'[last'.client].listeners
             /\ ~clients'[last'.client].timeout
       /\ AfterTimeout' => ~last'.handled
       /\ TimedOut' \/ AfterTimeout' =>
             /\ \A u \in Accounts : Registered(u)' = Registered(u)
             /\ reconnectTimers' = reconnectTimers
             /\ timers' = timers
             /\ accountsToReconnect' = accountsToReconnect
             /\ tokenFiles' = tokenFiles]_vars

\* a client whose login timed out logs on afterwards, unobserved, while the
\* account is not in the Registry
C17_Witness ==
    /\ last.op = "loggedOn"
    /\ ~last.handled
    /\ last.result = LoginTimeoutError
    /\ clients[last.client].state = "on"
    /\ ~isOnline(Cur, last.acct)

\* the timeout of an attempt started by a reconnect timer has fired
C17_WitnessUnattended ==
    /\ TimedOut
    /\ last.awaited
    /\ last.result = LoginTimeoutError
    /\ ~Pending(last.acct)

\* the login calls that have not been resolved yet
Unresolved == {c \in ClientIds : clients[c].result = "pending"}

\* C18: every login call is resolved in the end, whatever the client does,
\* given only that timers fire: as long as a call is unresolved its connect
\* timeout, whose callback resolves it, is armed.
C18_EveryLoginResolves ==
    \A c \in Unresolved : clients[c].timeout

----------------------------------------------------------------------------
(* Claims on logout and on the removal of an account *)

Returned(M, value) == Len(M.fx) > 0 /\ M.fx[Len(M.fx)] = value

\* C19: logout returns true exactly when the account was in the Registry;
\* afterwards the account is neither in the Registry nor pending, and the
\* former handle has its observers detached and is logged off; a second
\* logout in a row returns false and changes nothing.
C19_Logout ==
    /\ last.op = "logout" =>
          /\ Returned(last, "return:true") <=> last.wasOnline
          /\ Returned(last, "return:false") <=> ~last.wasOnline
          /\ ~isOnline(Cur, last.acct)
          /\ ~Pending(last.acct)
          /\ timers[last.acct] = {}
          /\ last.wasOnline =>
                /\ Has(last.fx, "removeAllListeners")
                /\ First(last.fx, "removeAllListeners") < First(last.fx, "logOff")
    /\ \A u \in Accounts :
          LET handle == activeClients[u]
              once == logout(Cur, u)
              twice == logout([once EXCEPT !.fx = <<>>], u)
          IN /\ Returned(once, "return:true") <=> isOnline(Cur, u)
             /\ ~isOnline(once, u)
             /\ once.reconnectTimers[u] = 0
             /\ once.timers[u] = {}
             /\ once.accountsToReconnect[u] = NoAccount
             /\ handle # 0 =>
                   /\ ~once.clients[handle].listeners
                   /\ once.clients[handle].state = "off"
             /\ Returned(twice, "return:false")
             /\ Core(twice) = Core(once)

\* logout of an account that was in the Registry and had a reconnect timer armed
C19_Witness ==
    /\ last.op = "logout"
    /\ last.wasOnline
    /\ Has(last.fx, "clearTimeout:reconnect")
    /\ Returned(last, "return:true")
    /\ ~isOnline(Cur, last.acct)

\* C20: right after deleteAccount by the owner the account is neither in the
\* Registry nor pending and its record is gone from the storage; a request
\* for an account the caller does not own changes nothing.
C20_DeleteAccount ==
    last.op = "deleteAccount" =>
        IF last.arg = "deleted"
        THEN /\ ~isOnline(Cur, last.acct)
             /\ ~Pending(last.acct)
             /\ timers[last.acct] = {}
             /\ getAccount(accounts, last.acct) = NoAccount
             /\ last.wasOnline <=> Has(last.fx, "logOff")
             /\ Returned(last, "removeAccount")
        ELSE last.fx = <<>>

\* the owner deletes an account that is in the Registry and has a reconnect
\* timer armed
C20_Witness ==
    /\ last.op = "deleteAccount"
    /\ last.arg = "deleted"
    /\ last.wasOnline
    /\ Has(last.fx, "clearTimeout:reconnect")
    /\ Has(last.fx, "logOff")
    /\ accounts[last.acct] = NoAccount

----------------------------------------------------------------------------
(* Claims on the verification requests *)

\* the clients of u whose guardCallback promise is unsettled
Waiting(u) == {c \in ClientsOf(u) : guardRequests[c] \in {"armed", "expired"}}

\* C21: right after a logout of an account, and right after a fresh login for
\* it, no reconnect is pending for it and no verification request for it is
\* outstanding.
C21_CallsCancelVerification ==
    last.op \in {"login", "logout"} =>
        /\ ~Pending(last.acct)
        /\ pendingGuardCodes[last.acct] = 0
        /\ Waiting(last.acct) = {}

\* C22: there are never two callers waiting for a verification code for the
\* same account.
C22_OneVerificationRequest ==
    \A u \in Accounts : Cardinality(Waiting(u)) <= 1

\* C23: a verification request whose own 2-minute wait has expired has
\* returned, and the expiry of a request removes no entry but its own.
C23_RequestsReturn ==
    /\ \A c \in ClientIds : guardRequests[c] # "expired"
    /\ last.op \in {"guardTimer", "staleGuardTimer"} => last.arg # "other"

----------------------------------------------------------------------------
(* Claims on the playingState handler *)

PlayingStateHandled == last.op = "playingState" /\ last.handled /\ last.wasRegistered

ResumedWhileActive == last.op = "gamesResumed" /\ last.wasRegistered

\* the step leaves the registry, the pending reconnects, their timers and the
\* token files as they were, and the handle of the step registered and logged on
ActiveFrameKept ==
    /\ \A u \in Accounts : activeClients'[u] = 0 <=> activeClients[u] = 0
    /\ activeClients'[last'.acct] = last'.client
    /\ accountsToReconnect' = accountsToReconnect
    /\ reconnectTimers' = reconnectTimers
    /\ timers' = timers
    /\ tokenFiles' = tokenFiles
    /\ clients'[last'.client].state = "on"
    /\ clients'[last'.client].listeners

\* C24: a playingState event of the registered handle of an account changes
\* neither the registry nor the pending reconnects nor the token and does not
\* log the handle off; blocked = true does nothing else, blocked = false
\* starts playGames on the same handle, whose gamesPlayed call again leaves
\* the registry and the pending reconnects alone.
C24_PlayingState ==
    [][/\ PlayingStateHandled' =>
            /\ ActiveFrameKept
            /\ last'.arg = "blocked" => last'.fx = <<"log:blocked">>
            /\ last'.arg = "unblocked" =>
                   /\ last'.fx = <<"playGames">>
                   /\ resuming'[last'.client] > 0
       /\ ResumedWhileActive' =>
            /\ ActiveFrameKept
            /\ last'.fx = <<"gamesPlayed">>]_vars

\* the selectors were resubmitted on the registered handle after an unblock
C24_Witness ==
    /\ ResumedWhileActive
    /\ Has(last.fx, "gamesPlayed")
    /\ activeClients[last.acct] = last.client

\* a blocked event was handled for a registered handle with a token on file
C24_WitnessBlocked ==
    /\ PlayingStateHandled
    /\ last.arg = "blocked"
    /\ tokenFiles[last.acct] \in Tokens

----------------------------------------------------------------------------
(* Claims on the activity selection *)

StringsOf(list) == {i \in 1..Len(list) : "string" \in DOMAIN list[i]}

\* one synthetic entry with the first string selector when there is one, then
\* the numeric selectors in their order
Selection(list) ==
    (IF StringsOf(list) = {} THEN <<>>
     ELSE <<[game_id |-> "15190414816125648896",
             game_extra_info |->
                 list[CHOOSE i \in StringsOf(list) : \A j \in StringsOf(list) : i <= j].string]>>)
    \o SelectSeq(list, LAMBDA g : "number" \in DOMAIN g)

Submitted == last.op \in {"playGames", "updateGames"} /\ Has(last.fx, "gamesPlayed")

\* C25: the list submitted by playGames and by updateGames is one synthetic
\* entry carrying the first string selector whenever the list has a string
\* selector, followed by every numeric selector in its original order.
C25_ActivitySelection ==
    Submitted => last.sent = <<Selection(games)>>

----------------------------------------------------------------------------
(* Claims on the independence of accounts *)

\* the SteamUser instances of u, each with the number of instances like it
ClientBag(u) ==
    [r \in {clients[c] : c \in ClientsOf(u)} |->
        Cardinality({c \in ClientsOf(u) : clients[c] = r})]

\* the step leaves everything kept for account B as it was: the registered
\* handle, the pending reconnect and its timer, the token, and every attempt
\* of B with its observers, its timeout and its promise
FrameOf(B) ==
    /\ Registered(B)' = Registered(B)
    /\ accountsToReconnect'[B] = accountsToReconnect[B]
    /\ reconnectTimers'[B] = reconnectTimers[B]
    /\ timers'[B] = timers[B]
    /\ tokenFiles'[B] = tokenFiles[B]
    /\ ClientBag(B)' = ClientBag(B)

\* C26: a login or logout call, a reconnect timer or a client event of one
\* account leaves the registry entry, the pending reconnect, the timer, the
\* token and the attempts in flight of every other account unchanged.
C26_AccountsIndependent ==
    [][\A B \in Accounts : last'.acct # B => FrameOf(B)]_vars

\* a transient error of alice arms her reconnect while bob has a reconnect
\* pending and a token on file
C26_Witness ==
    /\ last.op = "error"
    /\ last.acct = "alice"
    /\ Has(last.fx, "schedule:armed")
    /\ reconnectTimers["bob"] # 0
    /\ accountsToReconnect["bob"] # NoAccount
    /\ tokenFiles["bob"] \in Tokens

----------------------------------------------------------------------------
(* Claims on the token vault *)

LatestSaved(id) == savedTokens[id][Len(savedTokens[id])]

\* loadToken for an identifier with a token saved and not deleted since
LoadedSaved == last.op = "loadToken" /\ savedTokens[last.acct] # <<>>

Unreadable(file, key) ==
    /\ file # NoEntry
    /\ LET decrypted == decrypt(file.data, key)
       IN IF decrypted.threw THEN TRUE ELSE parse(decrypted.value).threw

\* C28: with the key set, loadToken (and hasToken through it) on a record
\* that cannot be decrypted or parsed returns absent and deletes that record
\* and no other file; a load right after returns absent and changes nothing;
\* loadToken for an identifier without a record returns absent.
C28_CorruptRecord ==
    [][\A id \in VaultIds :
          /\ (/\ last'.op \in {"loadToken", "hasToken"}
              /\ last'.acct = id
              /\ encryptionKey # ""
              /\ Unreadable(tokensDir[TokenFile(id)], encryptionKey)) =>
                 /\ last'.result = IF last'.op = "loadToken" THEN null ELSE "false"
                 /\ tokensDir' = [tokensDir EXCEPT ![TokenFile(id)] = NoEntry]
                 /\ vaultLoad(tokensDir', encryptionKey, id) = [dir |-> tokensDir', result |-> null]
          /\ (/\ last'.op = "loadToken"
              /\ last'.acct = id
              /\ tokensDir[TokenFile(id)] = NoEntry) =>
                 /\ last'.result = null
                 /\ tokensDir' = tokensDir]_vars

\* loadToken found a record it could not read and removed it
C28_Witness ==
    /\ last.op = "loadToken"
    /\ last.arg = "file"
    /\ last.result = null
    /\ encryptionKey # ""
    /\ tokensDir[TokenFile(last.acct)] = NoEntry

\* C29: while the key is not set, saveToken, loadToken and deleteToken leave
\* the files as they are, and loadToken returns absent.
C29_NoKeyNoOp ==
    [][(encryptionKey = "" /\ last'.op \in {"saveToken", "loadToken", "deleteToken"}) =>
          /\ tokensDir' = tokensDir
          /\ last'.op = "loadToken" => last'.result = null]_vars

\* every token saved and not deleted since, the empty one apart, is what
\* loadToken would return
SavedLoadable ==
    \A id \in VaultIds :
        (savedTokens[id] # <<>> /\ LatestSaved(id) # "") =>
            vaultLoad(tokensDir, encryptionKey, id) =
                [dir |-> tokensDir, result |-> LatestSaved(id)]

\* C30: a run of the sweep leaves every file named <account>.token as it is,
\* whatever its age and its name, and what loadToken returns for every
\* identifier is the same before and after: saved tokens that were loadable
\* before the sweep are loadable after it.
C30_SweepKeepsRecords ==
    [][last'.op = "cleanCache" =>
          /\ \A file \in FileNames :
                 endsWith(file, ".token") => tokensDir'[file] = tokensDir[file]
          /\ \A id \in VaultIds :
                 vaultLoad(tokensDir', encryptionKey, id).result
                     = vaultLoad(tokensDir, encryptionKey, id).result
          /\ SavedLoadable => SavedLoadable']_vars

\* the sweep removed something while the record of the account named sentry,
\* saved more than seven days ago, stayed
C30_Witness ==
    /\ last.op = "cleanCache"
    /\ last.arg = "cleaned"
    /\ savedTokens["sentry"] # <<>>
    /\ tokensDir[TokenFile("sentry")] # NoEntry
    /\ tokensDir[TokenFile("sentry")].old

----------------------------------------------------------------------------
(* Claims on recovery, on the registry and on the final stop *)

\* the registered client of u was disconnected and u may reconnect unattended
DisconnectedEligible(u) ==
    /\ ActiveDisconnected
    /\ last.acct = u
    /\ Eligible(u)

\* the reconnect timer of u has fired and started a login or found u online
Recovered(u) ==
    /\ last.op = "reconnectTimer"
    /\ last.acct = u
    /\ \/ last.client # 0 /\ Count(last.fx, LogOnCalls) = 1
       \/ last.wasOnline

\* logout or a manual login was called for u
Intervened(u) == last.acct = u /\ last.op \in {"login", "logout"}

\* the model has no client identifier left for the login of the timer callback
OutOfClients(u) ==
    /\ timers[u] # {}
    /\ accountsToReconnect[u] # NoAccount
    /\ ~isOnline(Cur, u)
    /\ FreeClients(Cur) = {}

\* C31: after the registered client of an eligible account was disconnected,
\* unless logout or a manual login is called for the account, its reconnect
\* timer fires in the end and then either starts a login for the account or
\* finds the account in the Registry (timers that stay armed fire; a run ends
\* where the login would need more clients than MaxClients).
C31_RecoveryIsLive ==
    \A u \in Accounts :
        DisconnectedEligible(u) ~> (Recovered(u) \/ Intervened(u) \/ OutOfClients(u))

\* the timer has fired and started a login while the disconnected client of
\* the account, unregistered, is still there
C31_Witness ==
    /\ last.op = "reconnectTimer"
    /\ last.client # 0
    /\ Has(last.fx, "login:unattended")
    /\ \E c \in ClientsOf(last.acct) : clients[c].state = "disc" /\ clients[c].listeners

\* an error or disconnected event of a client with its observers attached that
\* is not the registered handle, the account being in the Registry
ForeignEvent ==
    /\ last.op \in {"error", "disconnected"}
    /\ last.handled
    /\ last.wasOnline
    /\ ~last.wasRegistered

\* C32: an error or disconnected event of a client that is not the handle
\* registered for its account leaves the account in the Registry.
C32_OnlyHandleDeregisters ==
    ForeignEvent => isOnline(Cur, last.acct)

\* the login call of last.client has just resolved with {success: true}
ResolvedSuccess == last.client # 0 /\ Has(last.fx, "resolve:success")

\* C33: when a login call resolves with success the account is in the
\* Registry and the registered handle is the client of that call.
C33_SuccessMeansRegistered ==
    ResolvedSuccess => activeClients[last.acct] = last.client

\* C34: once logout has been called for an account, the account is neither
\* in the Registry nor in the pending-reconnect set until a caller invokes
\* login for it again.
C34_StopIsFinal ==
    \A u \in stopped.accounts : ~isOnline(Cur, u) /\ ~Pending(u)

----------------------------------------------------------------------------
(* Claims on the edit of the selectors *)

\* a list was submitted for a session by an edit or by a handler of the client
SubmittedForSession == last.op \in {"editGames", "playGames"} /\ Has(last.fx, "gamesPlayed")

\* C35: every list submitted for an account is made from the selectors the
\* account has in storage at that moment, also after an edit.
C35_CurrentSelectors ==
    SubmittedForSession => last.sent = <<playGamesList(accounts[last.acct].games)>>

----------------------------------------------------------------------------
(* Claims on the sender of a verification code *)

\* a guard-code command met the pending request of last.client
CodeForRequest == last.op = "guardCodeFrom" /\ last.client # 0

\* the user startBoost recorded in the request: it starts a login only for the
\* owner of the stored account
RecordedUser == accounts[last.acct].ownerId

\* C36: a code sent through the guard-code command resolves the pending
\* request of an account only when its sender is the user recorded in the
\* request and an allowed user; otherwise the request stays pending.
C36_OnlyRequesterFulfils ==
    CodeForRequest /\ Has(last.fx, "resolveGuard") =>
        /\ last.arg = ToString(RecordedUser)
        /\ \E userId \in allowedUsers : last.arg = ToString(userId)

----------------------------------------------------------------------------
(* Claims on the storage of the accounts *)

\* the records held in the file, whether the passphrase at hand opens it or not
RecordsIn(file) ==
    IF file = NoEntry \/ file.data = Garbage THEN {}
    ELSE IF DOMAIN file.data.encrypted.text # {"json"} THEN {}
    ELSE {file.data.encrypted.text.json[i] : i \in 1..Len(file.data.encrypted.text.json)}

Others(file, username) == {r \in RecordsIn(file) : r.username # username}

\* C37: addAccount replaces the record of its username or appends one, and
\* keeps every stored record of another username as it is, also when the
\* file does not decrypt or parse; removeAccount of a username that is not
\* stored returns false and leaves the file as it is.
C37_AddChangesOneRecord ==
    [][/\ last'.op = "addAccount" =>
             /\ Others(dataFile', last'.acct) = Others(dataFile, last'.acct)
             /\ \E r \in RecordsIn(dataFile') :
                    r.username = last'.acct /\ r.password = last'.arg
             /\ Cardinality({r \in RecordsIn(dataFile') : r.username = last'.acct}) = 1
       /\ ( /\ last'.op = "removeAccount"
            /\ findIndex(loadAccounts(dataFile, encryptionKey), last'.acct) = 0 ) =>
              last'.result = "false" /\ dataFile' = dataFile]_vars

====
